---- MODULE Spec2Model ----
(***************************************************************************)
(* A model of the memmem substring searcher (thomcc/memchr): Rabin-Karp,   *)
(* the rare-byte prefilters (scalar, SSE2, AVX2), the prefilter state, the *)
(* generic SIMD searcher, the Two-Way matcher and the forward and reverse  *)
(* iterators.  Byte slices are sequences of integers; Rust's 0-based       *)
(* indexes are kept, and At/Slice translate them to TLA+ sequences.        *)
(***************************************************************************)
EXTENDS Integers, Sequences, FiniteSets, TLC

VARIABLES
    haystack,   \* the haystack the current search runs over
    needle,     \* the needle of the current search
    build,      \* the vector support of the build: "scalar", "sse" or "avx"
    freq,       \* the byte-frequency rank table in use
    op,         \* the operation that ran last
    ret,        \* what that operation returned
    fwd,        \* the forward iterator Memmem: pos, prestate, what it yielded
    rev,        \* the reverse iterator Memrmem: pos, what it yielded
    ps,         \* a PrefilterState driven directly through update/is_effective
    hist,       \* whether a direct is_effective call has returned false so far
    peer        \* a second forward search over the same haystack

vars == <<haystack, needle, build, freq, op, ret, fwd, rev, ps, hist, peer>>

(***************************************************************************)
(* Bounds of the model.                                                    *)
(***************************************************************************)
\* The byte values used in needles and haystacks.  Three consecutive values
\* make Rabin-Karp hashes collide (hash(<<0,2>>) = hash(<<1,0>>)).
Bytes == {0, 1, 2}
\* Longest needle and longest exhaustively enumerated haystack of a single
\* memmem or memrmem call.
MaxNeedle == 3
MaxHay == 3
\* The same for the iterators, which run many calls on one input.
IterMaxNeedle == 2
IterMaxHay == 3
\* next() is called at most this often after the iterator has returned None.
MaxNones == 2
\* The same for the direct calls of the prefilters and of the algorithms.
PreMaxNeedle == 3
PreMaxHay == 3
AlgoMaxNeedle == 3
AlgoMaxHay == 2
\* update is called until skips reaches this value.
MaxSkips == 53

(***************************************************************************)
(* Option<usize> and 0-based slices.                                        *)
(***************************************************************************)
\* A call returns Some(i) or None, or it panics (a failed assert!, an index
\* out of range).
None == [tag |-> "None", val |-> 0]
Some(i) == [tag |-> "Some", val |-> i]
Panic == [tag |-> "Panic", val |-> 0]
IsSome(r) == r.tag = "Some"

\* s[i]
At(s, i) == s[i + 1]
\* &s[a..b]
Slice(s, a, b) == SubSeq(s, a + 1, b)
\* &s[a..]
From(s, a) == SubSeq(s, a + 1, Len(s))

Max2(a, b) == IF a >= b THEN a ELSE b
Min2(a, b) == IF a <= b THEN a ELSE b

\* s in reverse order
Reverse(s) == [i \in 1..Len(s) |-> s[Len(s) + 1 - i]]

\* All sequences over S of length exactly n / at most n.
SeqsOfLen(S, n) == [1..n -> S]
SeqsUpTo(S, n) == UNION {SeqsOfLen(S, k) : k \in 0..n}

\* v repeated n times.
Rep(v, n) == [i \in 1..n |-> v]

\* F(v), with v evaluated once however often F refers to it.
Bind(F(_), v) == CHOOSE r \in {F(x) : x \in {v}} : TRUE

\* A loop of the program is the record of its local variables, a done flag
\* and the value returned, and one operator that runs one iteration.
\* Loop runs Step from s until done, for at most 2^k iterations.
RECURSIVE Loop(_, _, _)
Loop(Step(_), s, k) ==
    IF k = 0
    THEN LET Once(x) == IF x.done THEN x ELSE Step(x) IN Bind(Once, s)
    ELSE LET Rest(mid) == IF mid.done THEN mid ELSE Loop(Step, mid, k - 1)
         IN Bind(Rest, Loop(Step, s, k - 1))

\* Every loop of the model ends within 2^LoopLog iterations.
LoopLog == 7

\* A loop over the bytes of a needle ends within 2^NeedleLoopLog iterations.
NeedleLoopLog == 8

\* What a loop returned; a loop cut short by the bound returned nothing.
Finish(s) == IF s.done THEN s.ret ELSE [tag |-> "Unfinished", val |-> 0]

(***************************************************************************)
(* 32-bit unsigned integers, kept as two 16-bit halves so that wrapping    *)
(* and saturation happen exactly where the u32 arithmetic has them.        *)
(***************************************************************************)
Half == 65536
U32(h, l) == [hi |-> h, lo |-> l]
U32Of(n) == U32(n \div Half, n % Half)
U32Zero == U32(0, 0)
U32Max == U32(Half - 1, Half - 1)

\* x.wrapping_shl(1)
wrapping_shl1(x) ==
    LET l == x.lo * 2
        h == x.hi * 2 + (l \div Half)
    IN U32(h % Half, l % Half)

\* x.wrapping_add(y)
wrapping_add(x, y) ==
    LET l == x.lo + y.lo
        h == x.hi + y.hi + (l \div Half)
    IN U32(h % Half, l % Half)

\* x.wrapping_sub(y)
wrapping_sub(x, y) ==
    LET l == x.lo - y.lo
        borrow == IF l < 0 THEN 1 ELSE 0
        h == x.hi - y.hi - borrow
    IN U32((h + 2 * Half) % Half, (l + Half) % Half)

\* (byte as u32).wrapping_mul(f), byte < 256
wrapping_mul_byte(byte, f) ==
    LET l == byte * f.lo
        h == byte * f.hi + (l \div Half)
    IN U32(h % Half, l % Half)

(***************************************************************************)
(* memmem/util.rs                                                          *)
(***************************************************************************)
\* memcmp: equal lengths, then bytewise below 8 bytes, else 8-byte chunks
\* with one final chunk anchored at the end.
RECURSIVE memcmp_chunks(_, _, _)
memcmp_chunks(x, y, px) ==
    IF px < Len(x) - 8
    THEN IF Slice(x, px, px + 8) # Slice(y, px, px + 8)
         THEN FALSE
         ELSE memcmp_chunks(x, y, px + 8)
    ELSE Slice(x, Len(x) - 8, Len(x)) = Slice(y, Len(y) - 8, Len(y))

memcmp(x, y) ==
    IF Len(x) # Len(y) THEN FALSE
    ELSE IF Len(x) < 8
         THEN \A i \in 1..Len(x) : x[i] = y[i]
         ELSE memcmp_chunks(x, y, 0)

\* is_prefix with < in place of <=: a haystack is no prefix of itself.
is_prefix_strict(h, n) ==
    Len(n) < Len(h) /\ memcmp(Slice(h, 0, Len(n)), n)

is_prefix(h, n) ==
    Len(n) <= Len(h) /\ memcmp(Slice(h, 0, Len(n)), n)

(***************************************************************************)
(* The naive references of the test suite.                                 *)
(***************************************************************************)
\* tests::naive_find: the first i of 0..=(|h| - |n|) with h[i..i+|n|] = n.
naive_find(h, n) ==
    IF Len(n) = 0 THEN Some(0)
    ELSE IF Len(h) < Len(n) THEN None
    ELSE LET First(hits) == IF hits = {} THEN None
                            ELSE Some(CHOOSE i \in hits : \A j \in hits : i <= j)
         IN Bind(First, {i \in 0..(Len(h) - Len(n)) :
                            n = Slice(h, i, i + Len(n))})

\* tests::naive_rfind: the last such i.
naive_rfind(h, n) ==
    IF Len(n) = 0 THEN Some(Len(h))
    ELSE IF Len(h) < Len(n) THEN None
    ELSE LET Last(hits) == IF hits = {} THEN None
                           ELSE Some(CHOOSE i \in hits : \A j \in hits : i >= j)
         IN Bind(Last, {i \in 0..(Len(h) - Len(n)) :
                           n = Slice(h, i, i + Len(n))})

(***************************************************************************)
(* memmem/rabinkarp.rs                                                     *)
(***************************************************************************)
\* Hash::add
hash_add(h, byte) == wrapping_add(wrapping_shl1(h), U32Of(byte))

\* Hash::del that subtracts the byte itself, without the factor.
hash_del_unscaled(h, nhash, byte) == wrapping_sub(h, U32Of(byte))

\* Hash::del
hash_del(h, nhash, byte) ==
    wrapping_sub(h, wrapping_mul_byte(byte, nhash.hash_2pow))

\* Hash::roll
hash_roll(h, nhash, old, new) == hash_add(hash_del(h, nhash, old), new)

\* Hash::from_bytes
\* One iteration of the loop over the bytes.
hash_from_bytes_step(bytes, s) ==
    [s EXCEPT !.hash = hash_add(s.hash, At(bytes, s.i)),
              !.i = s.i + 1,
              !.done = s.i + 1 >= Len(bytes)]

hash_from_bytes_acc(bytes, i, h) ==
    LET Step(s) == hash_from_bytes_step(bytes, s)
    IN Loop(Step, [hash |-> h, i |-> i, done |-> i >= Len(bytes)],
            NeedleLoopLog).hash

hash_from_bytes(bytes) == hash_from_bytes_acc(bytes, 0, U32Zero)

\* NeedleHash::new
\* One iteration of the loop over needle.iter().skip(1).
needle_hash_step(n, s) ==
    [s EXCEPT !.hash = hash_add(s.hash, At(n, s.i)),
              !.hash_2pow = wrapping_shl1(s.hash_2pow),
              !.i = s.i + 1,
              !.done = s.i + 1 >= Len(n)]

needle_hash_result(s) == [hash |-> s.hash, hash_2pow |-> s.hash_2pow]

needle_hash_acc(n, i, nh) ==
    LET Step(s) == needle_hash_step(n, s)
    IN Bind(needle_hash_result,
            Loop(Step, [hash |-> nh.hash, hash_2pow |-> nh.hash_2pow,
                        i |-> i, done |-> i >= Len(n)], NeedleLoopLog))

\* NeedleHash::new that leaves the first byte of the needle out of the hash.
NeedleHash_new_skip_first(n) ==
    needle_hash_acc(n, 1, [hash |-> U32Zero, hash_2pow |-> U32Of(1)])

NeedleHash_new(n) ==
    LET nh == [hash |-> U32Zero, hash_2pow |-> U32Of(1)]
    IN IF Len(n) = 0 THEN nh
       ELSE needle_hash_acc(n, 1, [nh EXCEPT !.hash = hash_add(nh.hash, At(n, 0))])

\* One iteration of find_with's loop with its two tests in the other order:
\* the window is given up as too short before it is compared.
rk_step_length_first(nhash, h, n, s) ==
    IF Len(n) >= Len(h) - s.off
    THEN [s EXCEPT !.done = TRUE, !.ret = None]
    ELSE IF nhash.hash = s.hash /\ is_prefix(From(h, s.off), n)
    THEN [s EXCEPT !.done = TRUE, !.ret = Some(s.off)]
    ELSE [s EXCEPT !.off = s.off + 1,
                   !.hash = hash_roll(s.hash, nhash, At(h, s.off),
                                      At(h, s.off + Len(n)))]

\* One iteration of rabinkarp::find_with's loop: off is how far the
\* haystack slice has been advanced, hash the hash of its window.
rk_step(nhash, h, n, s) ==
    IF nhash.hash = s.hash /\ is_prefix(From(h, s.off), n)
    THEN [s EXCEPT !.done = TRUE, !.ret = Some(s.off)]
    ELSE IF Len(n) >= Len(h) - s.off
    THEN [s EXCEPT !.done = TRUE, !.ret = None]
    ELSE [s EXCEPT !.off = s.off + 1,
                   !.hash = hash_roll(s.hash, nhash, At(h, s.off),
                                      At(h, s.off + Len(n)))]

\* rabinkarp::find_with after its length check.
rk_loop(nhash, h, n) ==
    LET Step(s) == rk_step(nhash, h, n, s) IN
    Finish(Loop(Step, [off |-> 0,
                       hash |-> hash_from_bytes(Slice(h, 0, Len(n))),
                       done |-> FALSE, ret |-> None], LoopLog))

\* find_with without its length check: &haystack[..needle.len()] panics.
rk_find_with_unguarded(nhash, h, n) ==
    IF Len(h) < Len(n) THEN Panic
    ELSE rk_loop(nhash, h, n)

\* rabinkarp::find_with
rk_find_with(nhash, h, n) ==
    IF Len(h) < Len(n) THEN None
    ELSE rk_loop(nhash, h, n)

\* rabinkarp::find
rk_find(h, n) == rk_find_with(NeedleHash_new(n), h, n)

\* rabinkarp::rfind_with, the reverse analogue: the hash is taken right to
\* left and the window slides from the end of the haystack to its start.
\* end is the length of the haystack slice still to be searched.
RECURSIVE hash_from_bytes_rev_acc(_, _, _)
hash_from_bytes_rev_acc(bytes, i, h) ==
    IF i <= 0 THEN h
    ELSE hash_from_bytes_rev_acc(bytes, i - 1, hash_add(h, At(bytes, i - 1)))

hash_from_bytes_rev(bytes) == hash_from_bytes_rev_acc(bytes, Len(bytes), U32Zero)

RECURSIVE needle_hash_rev_acc(_, _, _)
needle_hash_rev_acc(n, i, nh) ==
    IF i <= 0 THEN nh
    ELSE needle_hash_rev_acc(n, i - 1,
            [hash |-> hash_add(nh.hash, At(n, i - 1)),
             hash_2pow |-> wrapping_shl1(nh.hash_2pow)])

NeedleHash_reverse(n) ==
    LET nh == [hash |-> U32Zero, hash_2pow |-> U32Of(1)]
    IN IF Len(n) = 0 THEN nh
       ELSE needle_hash_rev_acc(n, Len(n) - 1,
                [nh EXCEPT !.hash = hash_add(nh.hash, At(n, Len(n) - 1))])

\* is_suffix that refuses a needle as long as the haystack.
is_suffix_strict(h, n) ==
    Len(n) < Len(h) /\ memcmp(Slice(h, Len(h) - Len(n), Len(h)), n)

is_suffix(h, n) ==
    Len(n) <= Len(h) /\ memcmp(Slice(h, Len(h) - Len(n), Len(h)), n)

\* One iteration of rfind_with's loop: end is the length of the haystack
\* slice still to be searched.
rk_rstep(nhash, h, n, s) ==
    IF nhash.hash = s.hash /\ is_suffix(Slice(h, 0, s.end), n)
    THEN [s EXCEPT !.done = TRUE, !.ret = Some(s.end - Len(n))]
    ELSE IF Len(n) >= s.end
    THEN [s EXCEPT !.done = TRUE, !.ret = None]
    ELSE [s EXCEPT !.end = s.end - 1,
                   !.hash = hash_roll(s.hash, nhash, At(h, s.end - 1),
                                      At(h, s.end - Len(n) - 1))]

rk_rfind_with(nhash, h, n) ==
    IF Len(h) < Len(n) THEN None
    ELSE LET Step(s) == rk_rstep(nhash, h, n, s) IN
         Finish(Loop(Step,
                [end |-> Len(h),
                 hash |-> hash_from_bytes_rev(Slice(h, Len(h) - Len(n), Len(h))),
                 done |-> FALSE, ret |-> None], LoopLog))

\* rabinkarp::rfind
rk_rfind(h, n) == rk_rfind_with(NeedleHash_reverse(n), h, n)

(***************************************************************************)
(* The single-byte scans memchr and memrchr (external to memmem).          *)
(***************************************************************************)
\* memchr: the first index of s that holds b.
memchr(b, s) ==
    LET Scan(t) ==
            IF \A i \in 0..(Len(t) - 1) : At(t, i) # b THEN None
            ELSE Some(CHOOSE i \in 0..(Len(t) - 1) :
                        At(t, i) = b /\ \A j \in 0..(i - 1) : At(t, j) # b)
    IN Bind(Scan, s)

\* memrchr: the last index of s that holds b.
memrchr(b, s) ==
    LET Scan(t) ==
            IF \A i \in 0..(Len(t) - 1) : At(t, i) # b THEN None
            ELSE Some(CHOOSE i \in 0..(Len(t) - 1) :
                        At(t, i) = b
                        /\ \A j \in (i + 1)..(Len(t) - 1) : At(t, j) # b)
    IN Bind(Scan, s)

(***************************************************************************)
(* memmem/prefilter/mod.rs: PrefilterState                                 *)
(***************************************************************************)
MIN_SKIPS == 50
MIN_SKIP_BYTES == 8
MAX_FALLBACK_RANK == 250

\* x >= y and x < y on u32 values
U32Ge(x, y) == x.hi > y.hi \/ (x.hi = y.hi /\ x.lo >= y.lo)
U32Lt(x, y) == ~U32Ge(x, y)

\* An update whose sum wraps around instead of saturating.
add_wrapping(x, y) == wrapping_add(x, y)

\* x.saturating_add(y)
saturating_add(x, y) ==
    LET l == x.lo + y.lo
        h == x.hi + y.hi + (l \div Half)
    IN IF h >= Half THEN U32Max ELSE U32(h, l % Half)

\* x.saturating_sub(1)
saturating_sub1(x) ==
    IF x = U32Zero THEN U32Zero
    ELSE IF x.lo = 0 THEN U32(x.hi - 1, Half - 1)
    ELSE U32(x.hi, x.lo - 1)

\* MIN_SKIP_BYTES * x in u32 arithmetic (the product wraps at 2^32)
mul_min_skip_bytes(x) ==
    LET l == MIN_SKIP_BYTES * x.lo
        h == MIN_SKIP_BYTES * x.hi + (l \div Half)
    IN U32(h % Half, l % Half)

\* A usize argument: the same two halves, hi >= Half when it exceeds u32::MAX.
USize(n) == U32Of(n)

\* PrefilterState::new and PrefilterState::inert
PrefilterState_new == [skips |-> U32Of(1), skipped |-> U32Zero]
PrefilterState_inert == [skips |-> U32Zero, skipped |-> U32Zero]

\* PrefilterState::update
update(st, skipped) ==
    [skips |-> saturating_add(st.skips, U32Of(1)),
     skipped |-> IF skipped.hi >= Half
                 THEN U32Max
                 ELSE saturating_add(st.skipped, skipped)]

\* PrefilterState::is_inert and PrefilterState::skips
is_inert(st) == st.skips = U32Zero
skips(st) == saturating_sub1(st.skips)

\* PrefilterState::is_effective: the value returned and the state left behind
is_effective(st) ==
    IF is_inert(st) THEN [ret |-> FALSE, st |-> st]
    ELSE IF U32Lt(skips(st), U32Of(MIN_SKIPS)) THEN [ret |-> TRUE, st |-> st]
    ELSE IF U32Ge(st.skipped, mul_min_skip_bytes(skips(st)))
         THEN [ret |-> TRUE, st |-> st]
    ELSE [ret |-> FALSE, st |-> [st EXCEPT !.skips = U32Zero]]

(***************************************************************************)
(* memmem/prefilter/mod.rs: NeedleInfo and Freqy                           *)
(***************************************************************************)
\* The frequency rank of a byte (byte_frequencies.rs): 0 is rarest.
rank(b) == freq[b]

\* The scan over the needle bytes from index i on.
\* One iteration of the scan: the byte at index s.i against the two
\* rarest bytes so far.
ninfo_forward_step(n, s) ==
    LET b == At(n, s.i)
        t == [s EXCEPT !.i = s.i + 1, !.done = s.i + 1 >= Len(n)]
    IN IF rank(b) < rank(s.rare1)
       THEN [t EXCEPT !.rare1 = b, !.rare1i = s.i % 256,
                      !.rare2 = s.rare1, !.rare2i = s.rare1i]
       ELSE IF b # s.rare1 /\ rank(b) < rank(s.rare2)
       THEN [t EXCEPT !.rare2 = b, !.rare2i = s.i % 256]
       ELSE t

ninfo_forward_scan(n, i, r) ==
    LET Step(s) == ninfo_forward_step(n, s)
    IN Loop(Step, [rare1 |-> r.rare1, rare1i |-> r.rare1i,
                   rare2 |-> r.rare2, rare2i |-> r.rare2i,
                   i |-> i, done |-> i >= Len(n)], NeedleLoopLog)

\* NeedleInfo::forward whose swap of the first two bytes leaves the offsets
\* where they were.
NeedleInfo_forward_half_swap(n, skip_first_byte) ==
    LET nhash == NeedleHash_new(n) IN
    IF Len(n) <= 1 \/ Len(n) > 255
    THEN [rare1i |-> 0, rare2i |-> 0, nhash |-> nhash]
    ELSE LET start == IF skip_first_byte /\ Len(n) >= 3 THEN 1 ELSE 0
             r0 == [rare1 |-> At(n, start), rare1i |-> start,
                    rare2 |-> At(n, start + 1), rare2i |-> start + 1]
             r1 == IF rank(r0.rare2) < rank(r0.rare1)
                   THEN [rare1 |-> r0.rare2, rare1i |-> r0.rare2i,
                         rare2 |-> r0.rare1, rare2i |-> r0.rare2i]
                   ELSE r0
             r == ninfo_forward_scan(n, start + 2, r1)
         IN [rare1i |-> r.rare1i, rare2i |-> r.rare2i, nhash |-> nhash]

\* NeedleInfo::forward
NeedleInfo_forward(n, skip_first_byte) ==
    LET nhash == NeedleHash_new(n) IN
    IF Len(n) <= 1 \/ Len(n) > 255
    THEN [rare1i |-> 0, rare2i |-> 0, nhash |-> nhash]
    ELSE LET start == IF skip_first_byte /\ Len(n) >= 3 THEN 1 ELSE 0
             r0 == [rare1 |-> At(n, start), rare1i |-> start,
                    rare2 |-> At(n, start + 1), rare2i |-> start + 1]
             r1 == IF rank(r0.rare2) < rank(r0.rare1)
                   THEN [rare1 |-> r0.rare2, rare1i |-> r0.rare2i,
                         rare2 |-> r0.rare1, rare2i |-> r0.rare1i]
                   ELSE r0
             r == ninfo_forward_scan(n, start + 2, r1)
         IN [rare1i |-> r.rare1i, rare2i |-> r.rare2i, nhash |-> nhash]

\* NeedleInfo::reverse: the same selection over needle.iter().rev(), so
\* that the offsets count from the end of the needle.
NeedleInfo_reverse(n, skip_first_byte) ==
    [NeedleInfo_forward(Reverse(n), skip_first_byte)
        EXCEPT !.nhash = NeedleHash_new(n)]

\* NeedleInfo::rev_rare
rev_rare(ninfo, n) ==
    <<At(n, Len(n) - ninfo.rare1i - 1), At(n, Len(n) - ninfo.rare2i - 1)>>

\* NeedleInfo::as_rare_usize, as_rare_ordered_usize and fwd_rare
as_rare_usize(ninfo) == <<ninfo.rare1i, ninfo.rare2i>>
as_rare_ordered_usize(ninfo) ==
    IF ninfo.rare1i <= ninfo.rare2i
    THEN <<ninfo.rare1i, ninfo.rare2i>>
    ELSE <<ninfo.rare2i, ninfo.rare1i>>
fwd_rare(ninfo, n) == <<At(n, ninfo.rare1i), At(n, ninfo.rare2i)>>

\* NeedleInfo::default
NeedleInfo_default ==
    [rare1i |-> 0, rare2i |-> 0,
     nhash |-> [hash |-> U32Zero, hash_2pow |-> U32Zero]]

\* Freqy::forward, the variant compiled with runtime SIMD detection; config
\* is "Auto" or "None" and bld says which vector support was detected.
Freqy_forward(config, n, bld) ==
    IF config = "None" \/ Len(n) <= 1
    THEN [ninfo |-> [NeedleInfo_default EXCEPT !.nhash = NeedleHash_new(n)],
          prefn |-> "fallback", inert |-> TRUE]
    ELSE LET is_sse == bld \in {"sse", "avx"}
             is_avx == bld = "avx"
             ninfo == NeedleInfo_forward(n, is_sse \/ is_avx)
         IN IF is_avx THEN [ninfo |-> ninfo, prefn |-> "avx", inert |-> FALSE]
            ELSE IF is_sse
            THEN [ninfo |-> ninfo, prefn |-> "sse", inert |-> FALSE]
            ELSE [ninfo |-> ninfo, prefn |-> "fallback",
                  inert |-> rank(At(n, ninfo.rare1i)) > MAX_FALLBACK_RANK]

\* The NeedleInfo of Freqy::reverse; is_avx is what the detection of AVX2
\* answered.
Freqy_reverse_ninfo(config, n, bld) ==
    IF config = "None"
    THEN [rare1i |-> 0, rare2i |-> 0, nhash |-> NeedleHash_new(n)]
    ELSE NeedleInfo_reverse(n, bld = "avx")

\* The local variable inert of Freqy::reverse when the Freqy is built.
Freqy_reverse_inert(config, n, ninfo) ==
    IF ninfo.rare1i < Len(n)
    THEN rank(At(n, Len(n) - ninfo.rare1i - 1)) > MAX_FALLBACK_RANK
    ELSE config = "None"

\* Freqy::reverse: the Freqy is built with inert: false.
Freqy_reverse(config, n, bld) ==
    [ninfo |-> Freqy_reverse_ninfo(config, n, bld),
     prefn |-> "fallback_rfind", inert |-> FALSE]

\* Freqy::state that hands out a fresh state whatever the prefilter.
Freqy_state_always_new(freqy) == PrefilterState_new

\* Freqy::state
Freqy_state(freqy) ==
    IF freqy.inert THEN PrefilterState_inert ELSE PrefilterState_new

(***************************************************************************)
(* memmem/prefilter/fallback.rs                                            *)
(* A prefilter call returns [ret, st]: the candidate and the state left.   *)
(***************************************************************************)
\* haystack.get(i) != Some(&b)
GetIsNot(h, i, b) == ~(i < Len(h) /\ At(h, i) = b)

\* i.saturating_sub(j) on usize
usize_saturating_sub(i, j) == IF i >= j THEN i - j ELSE 0

\* One iteration of fallback::find's loop, its is_effective test included:
\* i is the scan position and st the prefilter state.
fallback_step(ninfo, h, n, s) ==
    LET rare1i == as_rare_usize(ninfo)[1]
        rare2i == as_rare_usize(ninfo)[2]
        rare1 == fwd_rare(ninfo, n)[1]
        rare2 == fwd_rare(ninfo, n)[2]
        eff == is_effective(s.st)
    IN IF ~eff.ret
       THEN [s EXCEPT !.done = TRUE, !.st = eff.st,
                      !.ret = Some(usize_saturating_sub(s.i, rare1i))]
       ELSE LET Found(found) ==
                IF ~IsSome(found)
                THEN [s EXCEPT !.done = TRUE, !.st = eff.st, !.ret = None]
                ELSE LET st2 == update(eff.st, USize(found.val))
                         i2 == s.i + found.val
                     IN IF i2 < rare1i
                        THEN [s EXCEPT !.st = st2, !.i = i2 + 1]
                        ELSE IF GetIsNot(h, i2 - rare1i + rare2i, rare2)
                        THEN [s EXCEPT !.st = st2, !.i = i2 + 1]
                        ELSE [s EXCEPT !.done = TRUE, !.st = st2, !.i = i2,
                                       !.ret = Some(i2 - rare1i)]
            IN Bind(Found, memchr(rare1, From(h, s.i)))

\* fallback::find
fallback_find(st, ninfo, h, n) ==
    LET Step(s) == fallback_step(ninfo, h, n, s)
        Result(r) == [ret |-> Finish(r), st |-> r.st]
    IN Bind(Result, Loop(Step, [i |-> 0, st |-> st, done |-> FALSE,
                                ret |-> None], LoopLog))

\* One iteration of fallback::rfind's loop, its is_effective test included:
\* i is the end of the part still to scan and st the prefilter state.
fallback_rstep(ninfo, h, n, s) ==
    LET rare1i == as_rare_usize(ninfo)[1]
        rare2i == as_rare_usize(ninfo)[2]
        rare1 == rev_rare(ninfo, n)[1]
        rare2 == rev_rare(ninfo, n)[2]
        eff == is_effective(s.st)
    IN IF ~eff.ret
       THEN [s EXCEPT !.done = TRUE, !.st = eff.st,
                      !.ret = Some(Min2(Len(h), s.i + rare1i + 1))]
       ELSE LET Found(found) ==
                IF ~IsSome(found)
                THEN [s EXCEPT !.done = TRUE, !.st = eff.st, !.ret = None]
                ELSE LET st2 == update(eff.st, USize(s.i - found.val))
                         i2 == found.val
                     IN IF i2 + rare1i + 1 > Len(h)
                        THEN [s EXCEPT !.st = st2, !.i = i2]
                        ELSE IF i2 + rare1i < rare2i
                        THEN [s EXCEPT !.st = st2, !.i = i2]
                        ELSE IF GetIsNot(h, i2 + rare1i - rare2i, rare2)
                        THEN [s EXCEPT !.st = st2, !.i = i2]
                        ELSE [s EXCEPT !.done = TRUE, !.st = st2, !.i = i2,
                                       !.ret = Some(i2 + rare1i + 1)]
            IN Bind(Found, memrchr(rare1, Slice(h, 0, s.i)))

\* fallback::rfind
fallback_rfind(st, ninfo, h, n) ==
    LET Step(s) == fallback_rstep(ninfo, h, n, s)
        Result(r) == [ret |-> Finish(r), st |-> r.st]
    IN Bind(Result, Loop(Step, [i |-> Len(h), st |-> st, done |-> FALSE,
                                ret |-> None], LoopLog))

(***************************************************************************)
(* memmem/prefilter/x86/sse.rs and avx.rs                                  *)
(***************************************************************************)
SSE_VECTOR_SIZE == 16
AVX_VECTOR_SIZE == 32

\* find_in_chunk2: the lanes k of the chunk at ptr in which the byte loaded
\* at ptr + rare1i + k equals needle[rare1i] and the byte loaded at
\* ptr + rare2i + k equals needle[rare2i] (the set bits of the movemask).
\* Only bytes of the haystack can set a lane.
chunk2_lanes(V, h, n, rare1i, rare2i, ptr) ==
    {k \in 0..(V - 1) :
        /\ ptr + rare1i + k < Len(h)
        /\ ptr + rare2i + k < Len(h)
        /\ At(h, ptr + rare1i + k) = At(n, rare1i)
        /\ At(h, ptr + rare2i + k) = At(n, rare2i)}

\* trailing_zeros of a non-zero movemask
trailing_zeros(lanes) ==
    LET Lowest(bits) == CHOOSE k \in bits : \A j \in bits : k <= j
    IN Bind(Lowest, lanes)

find_in_chunk2(V, h, n, rare1i, rare2i, ptr) ==
    LET Offsets(lanes) == IF lanes = {} THEN None
                          ELSE Some(trailing_zeros(lanes))
    IN Bind(Offsets, chunk2_lanes(V, h, n, rare1i, rare2i, ptr))

\* Find::matched
matched(st, ptr, chunki) ==
    [ret |-> Some(ptr + chunki), st |-> update(st, USize(ptr + chunki))]

\* The main loop of Find::run, with ptr as an offset from start_ptr.
RECURSIVE simd_run_loop(_, _, _, _, _, _, _)
simd_run_loop(V, st, h, n, rare1i, rare2i, ptr) ==
    LET max_ptr == Len(h) - (rare2i + V) IN
    IF ptr <= max_ptr
    THEN LET c == find_in_chunk2(V, h, n, rare1i, rare2i, ptr) IN
         IF IsSome(c) THEN matched(st, ptr, c.val)
         ELSE simd_run_loop(V, st, h, n, rare1i, rare2i, ptr + V)
    ELSE IF ptr < Len(h)
    THEN LET c == find_in_chunk2(V, h, n, rare1i, rare2i, max_ptr) IN
         IF IsSome(c) THEN matched(st, max_ptr, c.val)
         ELSE [ret |-> None, st |-> update(st, USize(Len(h)))]
    ELSE [ret |-> None, st |-> update(st, USize(Len(h)))]

\* sse::find whose short-haystack path returns the position of the rare
\* byte itself instead of aligning it back to the start of the needle.
sse_find_unaligned(st, ninfo, h, n) ==
    IF Len(n) < 2 THEN [ret |-> Panic, st |-> st]
    ELSE LET rare1i == as_rare_ordered_usize(ninfo)[1]
             rare2i == as_rare_ordered_usize(ninfo)[2]
             min_haystack_len == rare2i + SSE_VECTOR_SIZE
         IN IF Len(h) < min_haystack_len
            THEN [ret |-> memchr(At(n, rare1i), h), st |-> st]
            ELSE simd_run_loop(SSE_VECTOR_SIZE, st, h, n, rare1i, rare2i, 0)

\* sse::find (Find::new and Find::run)
sse_find(st, ninfo, h, n) ==
    IF Len(n) < 2 THEN [ret |-> Panic, st |-> st]
    ELSE LET rare1i == as_rare_ordered_usize(ninfo)[1]
             rare2i == as_rare_ordered_usize(ninfo)[2]
             min_haystack_len == rare2i + SSE_VECTOR_SIZE
         IN IF Len(h) < min_haystack_len
            THEN LET m == memchr(At(n, rare1i), h) IN
                 [ret |-> IF IsSome(m)
                          THEN Some(usize_saturating_sub(m.val, rare1i))
                          ELSE None,
                  st |-> st]
            ELSE simd_run_loop(SSE_VECTOR_SIZE, st, h, n, rare1i, rare2i, 0)

\* avx::find (Find::new and Find::run)
avx_find(st, ninfo, h, n) ==
    IF Len(n) < 2 THEN [ret |-> Panic, st |-> st]
    ELSE LET rare1i == as_rare_ordered_usize(ninfo)[1]
             rare2i == as_rare_ordered_usize(ninfo)[2]
             min_haystack_len == rare2i + AVX_VECTOR_SIZE
         IN IF Len(h) < min_haystack_len
            THEN sse_find(st, ninfo, h, n)
            ELSE simd_run_loop(AVX_VECTOR_SIZE, st, h, n, rare1i, rare2i, 0)

\* A prefilter that never has a candidate.
Freqy_find_nothing(prefn, st, ninfo, h, n) == [ret |-> None, st |-> st]

\* Freqy::find: the call through the prefilter function pointer
Freqy_find(prefn, st, ninfo, h, n) ==
    CASE prefn = "fallback" -> fallback_find(st, ninfo, h, n)
      [] prefn = "sse" -> sse_find(st, ninfo, h, n)
      [] prefn = "avx" -> avx_find(st, ninfo, h, n)

(***************************************************************************)
(* memmem/genericsimd.rs and memmem/x86/{sse,avx}.rs                       *)
(***************************************************************************)
\* genericsimd::Forward::new: None, or the packed needle with its offsets
genericsimd_Forward_new(ninfo, n) ==
    LET rare1i == as_rare_ordered_usize(ninfo)[1]
        rare2i == as_rare_ordered_usize(ninfo)[2]
    IN IF Len(n) < 2 \/ Len(n) > 8 \/ rare1i = rare2i
       THEN [tag |-> "None", rare1i |-> 0, rare2i |-> 0, masklen |-> 0]
       ELSE [tag |-> "Some", rare1i |-> rare1i, rare2i |-> rare2i,
             masklen |-> Len(n)]

\* A minimum length that leaves the offset of the second rare byte out.
min_haystack_len_of_vector(f, V) == V

\* Forward::min_haystack_len::<V>
min_haystack_len(f, V) == f.rare2i + V

\* The 8 bytes of the unaligned u64 read at offset ptr; a byte past the end
\* of the haystack is not the haystack's, it reads as g.
read_u64(h, ptr, g) ==
    [j \in 1..8 |-> IF ptr + j - 1 < Len(h) THEN At(h, ptr + j - 1) ELSE g]

\* A confirmation that compares nothing: every candidate is reported.
confirm_always(f, h, n, ptr, g) == TRUE

\* (chunk & fwd.mask) == fwd.needle: the low masklen bytes against the needle
confirm(f, h, n, ptr, g) ==
    SubSeq(read_u64(h, ptr, g), 1, f.masklen) = n

\* fwd_find_in_chunk2: the candidates of the chunk are visited in increasing
\* order and lanes below lo are masked out.  The visit returns at the first
\* candidate that lies past the last possible start or that is confirmed.
fwd_find_in_chunk2(V, f, h, n, ptr, lo, g) ==
    LET lanes == {k \in chunk2_lanes(V, h, n, f.rare1i, f.rare2i, ptr) : k >= lo}
        At_stop(offset) ==
            IF ptr + offset > Len(h) - Len(n) THEN None ELSE Some(offset)
        Visit(stop) ==
            IF stop = {} THEN None ELSE Bind(At_stop, trailing_zeros(stop))
    IN Bind(Visit, {k \in lanes : \/ ptr + k > Len(h) - Len(n)
                                  \/ confirm(f, h, n, ptr + k, g)})

RECURSIVE fwd_find_loop(_, _, _, _, _, _)
fwd_find_loop(V, f, h, n, ptr, g) ==
    LET max_ptr == Len(h) - min_haystack_len(f, V) IN
    IF ptr <= max_ptr
    THEN LET m == fwd_find_in_chunk2(V, f, h, n, ptr, 0, g) IN
         IF IsSome(m) THEN Some(ptr + m.val)
         ELSE fwd_find_loop(V, f, h, n, ptr + V, g)
    ELSE IF ptr < Len(h)
    THEN IF Len(h) - ptr < Len(n) THEN None
         ELSE LET overlap == ptr - max_ptr
                  m == fwd_find_in_chunk2(V, f, h, n, max_ptr, overlap, g)
              IN IF IsSome(m) THEN Some(max_ptr + m.val) ELSE None
    ELSE None

\* genericsimd::fwd_find::<V>
fwd_find(V, f, h, n, g) ==
    IF Len(h) < Len(n) THEN None
    ELSE IF Len(h) < min_haystack_len(f, V) THEN Panic
    ELSE fwd_find_loop(V, f, h, n, 0, g)

\* x86::sse::Forward::find and x86::avx::Forward::find
x86_sse_find(f, h, n, g) == fwd_find(SSE_VECTOR_SIZE, f, h, n, g)
x86_avx_find(f, h, n, g) ==
    IF Len(h) < min_haystack_len(f, AVX_VECTOR_SIZE)
    THEN fwd_find(SSE_VECTOR_SIZE, f, h, n, g)
    ELSE fwd_find(AVX_VECTOR_SIZE, f, h, n, g)

(***************************************************************************)
(* memmem/twoway.rs: the Two-Way matcher (Crochemore-Perrin).              *)
(***************************************************************************)
\* The maximal suffix of the needle under one ordering ("min" or "max"):
\* its start pos and its period.
RECURSIVE suffix_forward_loop(_, _, _, _)
suffix_forward_loop(n, kind, suf, c) ==
    IF c.start + c.offset >= Len(n) THEN suf
    ELSE LET current == At(n, suf.pos + c.offset)
             candidate == At(n, c.start + c.offset)
             accept == IF kind = "min" THEN candidate < current
                       ELSE candidate > current
             skip == IF kind = "min" THEN candidate > current
                     ELSE candidate < current
         IN IF accept
            THEN suffix_forward_loop(n, kind,
                    [pos |-> c.start, period |-> 1],
                    [start |-> c.start + 1, offset |-> 0])
            ELSE IF skip
            THEN suffix_forward_loop(n, kind,
                    [suf EXCEPT !.period = c.start + c.offset + 1 - suf.pos],
                    [start |-> c.start + c.offset + 1, offset |-> 0])
            ELSE IF c.offset + 1 = suf.period
            THEN suffix_forward_loop(n, kind, suf,
                    [start |-> c.start + suf.period, offset |-> 0])
            ELSE suffix_forward_loop(n, kind, suf,
                    [c EXCEPT !.offset = c.offset + 1])

Suffix_forward(n, kind) ==
    suffix_forward_loop(n, kind, [pos |-> 0, period |-> 1],
                        [start |-> 1, offset |-> 0])

\* The preprocessing: the critical position, the period, and whether the
\* scan keeps a memory of the prefix it has already matched.
TwoWay_new(n) ==
    LET mn == Suffix_forward(n, "min")
        mx == Suffix_forward(n, "max")
        suf == IF mn.pos > mx.pos THEN mn ELSE mx
        crit_pos == suf.pos
        u == Slice(n, 0, crit_pos)
        v == From(n, crit_pos)
        memory_mode == /\ suf.period <= Len(v)
                       /\ is_suffix(Slice(v, 0, suf.period), u)
    IN [crit_pos |-> crit_pos,
        period |-> IF memory_mode THEN suf.period
                   ELSE Max2(crit_pos, Len(n) - crit_pos) + 1,
        memory_mode |-> memory_mode]

\* The first i in from..Len(n) with n[i] # h[pos + i], or Len(n).
RECURSIVE match_right(_, _, _, _)
match_right(h, n, pos, i) ==
    IF i < Len(n) /\ At(n, i) = At(h, pos + i)
    THEN match_right(h, n, pos, i + 1)
    ELSE i

\* TRUE when n[memory..crit_pos] matches h at pos, compared right to left.
RECURSIVE match_left(_, _, _, _, _)
match_left(h, n, pos, j, memory) ==
    IF j <= memory THEN TRUE
    ELSE IF At(n, j - 1) # At(h, pos + j - 1) THEN FALSE
    ELSE match_left(h, n, pos, j - 1, memory)

\* A scan that compares every window from its first byte.
right_start_zero(tw, memory) == 0

\* Where the comparison of a window starts: at the critical position, or
\* after the prefix that is remembered to match.
right_start(tw, memory) == Max2(tw.crit_pos, memory)

\* One iteration of the forward scan.  tw is the preprocessing, freqy the
\* prefilter and st its state; pos is the window start and memory the
\* matched prefix length.
twoway_step(tw, freqy, h, n, s) ==
    IF s.pos + Len(n) > Len(h) THEN [s EXCEPT !.done = TRUE, !.ret = None]
    ELSE
    LET eff == is_effective(s.st)
        mem1 == IF eff.ret THEN 0 ELSE s.memory
        Prefilter(rest) == Freqy_find(freqy.prefn, eff.st, freqy.ninfo, rest, n)
        Window(pre) ==
            LET pos1 == s.pos + pre.ret.val IN
            IF ~IsSome(pre.ret)
            THEN [s EXCEPT !.done = TRUE, !.st = pre.st, !.ret = pre.ret]
            ELSE IF pos1 + Len(n) > Len(h)
            THEN [s EXCEPT !.done = TRUE, !.st = pre.st, !.ret = None]
            ELSE LET Right(i) ==
                     IF i < Len(n)
                     THEN [s EXCEPT !.st = pre.st, !.memory = 0,
                                    !.pos = pos1 + (i - tw.crit_pos + 1)]
                     ELSE IF match_left(h, n, pos1, tw.crit_pos, mem1)
                     THEN [s EXCEPT !.done = TRUE, !.st = pre.st,
                                    !.pos = pos1, !.ret = Some(pos1)]
                     ELSE [s EXCEPT !.st = pre.st, !.pos = pos1 + tw.period,
                                    !.memory = IF tw.memory_mode
                                               THEN Len(n) - tw.period ELSE 0]
                 IN Bind(Right, match_right(h, n, pos1,
                                            right_start(tw, mem1)))
    IN Bind(Window, IF eff.ret THEN Bind(Prefilter, From(h, s.pos))
                    ELSE [ret |-> Some(0), st |-> eff.st])

\* The forward scan from window start pos with memory matched.
twoway_find_loop(tw, freqy, st, h, n, pos, memory) ==
    LET Step(s) == twoway_step(tw, freqy, h, n, s)
        Result(r) == [ret |-> Finish(r), st |-> r.st]
    IN Bind(Result, Loop(Step, [pos |-> pos, memory |-> memory, st |-> st,
                                done |-> FALSE, ret |-> None], LoopLog))

\* twoway::Forward::new
Forward_new(config, n, bld) ==
    LET freqy == Freqy_forward(config, n, bld) IN
    [needle |-> n,
     freqy |-> freqy,
     tw |-> TwoWay_new(n),
     sse |-> IF bld \in {"sse", "avx"}
             THEN genericsimd_Forward_new(freqy.ninfo, n)
             ELSE genericsimd_Forward_new(NeedleInfo_default, <<>>),
     avx |-> IF bld = "avx"
             THEN genericsimd_Forward_new(freqy.ninfo, n)
             ELSE genericsimd_Forward_new(NeedleInfo_default, <<>>)]

\* Below this haystack length a search runs Rabin-Karp.
RABIN_KARP_CUTOVER == 64

\* twoway::Forward::find_with: the dispatcher.  g is what a byte read past
\* the end of the haystack yields.
Forward_find_with(fw, st, h, g) ==
    LET n == fw.needle IN
    IF Len(n) = 0 THEN [ret |-> Some(0), st |-> st]
    ELSE IF Len(n) = 1 THEN [ret |-> memchr(At(n, 0), h), st |-> st]
    ELSE IF Len(h) < RABIN_KARP_CUTOVER
    THEN [ret |-> rk_find_with(fw.freqy.ninfo.nhash, h, n), st |-> st]
    ELSE IF fw.avx.tag = "Some"
            /\ Len(h) >= min_haystack_len(fw.avx, SSE_VECTOR_SIZE)
    THEN [ret |-> x86_avx_find(fw.avx, h, n, g), st |-> st]
    ELSE IF fw.sse.tag = "Some"
            /\ Len(h) >= min_haystack_len(fw.sse, SSE_VECTOR_SIZE)
    THEN [ret |-> x86_sse_find(fw.sse, h, n, g), st |-> st]
    ELSE twoway_find_loop(fw.tw, fw.freqy, st, h, n, 0, 0)

\* twoway::Forward::prefilter_state and twoway::Forward::find
Forward_prefilter_state(fw) == Freqy_state(fw.freqy)
Forward_find(fw, h, g) ==
    Forward_find_with(fw, Forward_prefilter_state(fw), h, g).ret

\* The reverse matcher is the forward one with the ordering reversed: it
\* scans the reversed haystack for the reversed needle, without a prefilter.
NoFreqy == [ninfo |-> NeedleInfo_default, prefn |-> "fallback", inert |-> TRUE]

twoway_rfind_scan(rh, rn) ==
    twoway_find_loop(TwoWay_new(rn), NoFreqy, PrefilterState_inert,
                     rh, rn, 0, 0).ret

\* A match found in the reversed haystack, as a position of the haystack.
twoway_rfind_back(h, n, r) ==
    IF IsSome(r) THEN Some(Len(h) - r.val - Len(n)) ELSE r

twoway_rfind(h, n) ==
    twoway_rfind_back(h, n, twoway_rfind_scan(Reverse(h), Reverse(n)))

\* twoway::Reverse::rfind
Reverse_rfind(n, h) ==
    IF Len(n) = 0 THEN Some(Len(h))
    ELSE IF Len(n) = 1 THEN memrchr(At(n, 0), h)
    ELSE IF Len(h) < RABIN_KARP_CUTOVER THEN rk_rfind(h, n)
    ELSE twoway_rfind(h, n)

(***************************************************************************)
(* memmem/mod.rs: memmem, memrmem and the iterators                        *)
(***************************************************************************)
\* Finder::new(needle) builds with the default configuration.
Finder_new(n, bld) == Forward_new("Auto", n, bld)

\* FinderBuilder::new().prefilter(config).build_forward(needle)
FinderBuilder_build_forward(config, n, bld) == Forward_new(config, n, bld)

\* memrmem calling the forward Rabin-Karp below the cut-over.
memrmem_forward(h, n) ==
    IF Len(h) < 64
    THEN rk_find(h, n)
    ELSE Reverse_rfind(n, h)

\* memmem
memmem(h, n, bld, g) ==
    IF Len(h) < 64
    THEN rk_find(h, n)
    ELSE Forward_find(Finder_new(n, bld), h, g)

\* memrmem
memrmem(h, n) ==
    IF Len(h) < 64
    THEN rk_rfind(h, n)
    ELSE Reverse_rfind(n, h)

(***************************************************************************)
(* Inputs.  Short haystacks are enumerated exhaustively; long ones are a   *)
(* filler byte with the needle or a short word planted at the places where *)
(* the vector chunks and the final overlapping chunk begin and end.        *)
(***************************************************************************)
Builds == {"scalar", "sse", "avx"}

RankUp == [b \in Bytes |-> IF b = 0 THEN 10 ELSE IF b = 1 THEN 120 ELSE 252]
RankDown == [b \in Bytes |-> IF b = 0 THEN 252 ELSE IF b = 1 THEN 120 ELSE 10]
RankTables == {RankUp, RankDown}
SearchRankTables == {RankUp}

Needles == SeqsUpTo(Bytes, MaxNeedle)
ShortHays == SeqsUpTo(Bytes, MaxHay)

\* A haystack of len bytes f with the word w at offset k / ending back
\* bytes before the end.
Planted(f, len, k, w) == Rep(f, k) \o w \o Rep(f, len - k - Len(w))
PlantedAtEnd(f, len, back, w) == Planted(f, len, len - Len(w) - back, w)
\* The haystacks of the given lengths: the filler alone, and the word at the
\* start, at each offset of ats, and at the end.
PlantedHays(lens, ats, w) ==
    {Planted(f, len, k, w) : f \in Bytes, len \in lens, k \in {0} \cup ats}
    \cup {PlantedAtEnd(f, len, 0, w) : f \in Bytes, len \in lens}
    \cup {Rep(f, len) : f \in Bytes, len \in lens}

\* Both sides of the cut-over to Rabin-Karp.
LongLens == {63, 64}
LongHays(n) == PlantedHays(LongLens, {33}, n)

\* Memmem::new and Memrmem::new
Memmem_new(h, finder) ==
    [pos |-> 0, prestate |-> Forward_prefilter_state(finder),
     out |-> <<>>, nones |-> 0]
Memrmem_new(h) == [pos |-> Some(Len(h)), out |-> <<>>, nones |-> 0]

\* No iterator has been built.
NoIterator == [out |-> <<>>, nones |-> 0]

\* Nothing has been called yet.
Idle == /\ op = "init"
        /\ ret = None
        /\ fwd = NoIterator
        /\ rev = NoIterator
        /\ ps = PrefilterState_new
        /\ hist = [seen_false |-> FALSE]
        /\ peer = NoIterator

InputInit ==
    /\ needle \in Needles
    /\ haystack \in ShortHays \cup LongHays(needle)
    /\ build \in Builds
    /\ freq \in SearchRankTables

\* What a read past the end of the haystack can yield.  Only the vector
\* searcher reads there, and the Finder runs it on haystacks of at least
\* RABIN_KARP_CUTOVER bytes when the build has vector support.
Garbage(h, bld) ==
    IF Len(h) >= RABIN_KARP_CUTOVER /\ bld # "scalar" THEN Bytes ELSE {0}

(***************************************************************************)
(* SpecSearch: one call of memmem or memrmem on an input.                  *)
(***************************************************************************)
SearchInit == InputInit /\ Idle

CallMemmem ==
    /\ op = "init"
    /\ \E g \in Garbage(haystack, build) :
            ret' = memmem(haystack, needle, build, g)
    /\ op' = "memmem"
    /\ UNCHANGED <<haystack, needle, build, freq, fwd, rev, ps, hist, peer>>

CallMemrmem ==
    /\ op = "init"
    /\ ret' = memrmem(haystack, needle)
    /\ op' = "memrmem"
    /\ UNCHANGED <<haystack, needle, build, freq, fwd, rev, ps, hist, peer>>

SearchNext == CallMemmem \/ CallMemrmem

SpecSearch == SearchInit /\ [][SearchNext]_vars

\* C1: memmem(H, N) returns what the naive forward reference returns.
C1_ForwardMatchesNaive ==
    op = "memmem" => ret = naive_find(haystack, needle)

\* C2: memrmem(H, N) returns what the naive reverse reference returns.
C2_ReverseMatchesNaive ==
    op = "memrmem" => ret = naive_rfind(haystack, needle)

C1_Witness ==
    /\ op = "memmem"
    /\ Len(haystack) = 64
    /\ Len(needle) = 3
    /\ ret = Some(33)

C2_Witness ==
    /\ op = "memrmem"
    /\ Len(haystack) = 63
    /\ Len(needle) = 3
    /\ ret = Some(33)

\* C5: for the empty needle memmem returns Some(0) and memrmem returns
\* Some(|H|), whatever the haystack.
C5_EmptyNeedle ==
    needle = <<>> =>
        /\ op = "memmem" => ret = Some(0)
        /\ op = "memrmem" => ret = Some(Len(haystack))

C5_Witness ==
    /\ needle = <<>>
    /\ haystack = <<>>
    /\ op = "memmem"
    /\ ret = Some(0)

\* C7: when the needle is longer than the haystack, memmem and memrmem
\* return None, and they return it as a value: there is no panic.
C7_NeedleLongerThanHaystack ==
    (Len(needle) > Len(haystack) /\ op \in {"memmem", "memrmem"})
        => ret = None

C7_Witness ==
    /\ haystack = <<>>
    /\ Len(needle) = 1
    /\ op = "memmem"
    /\ ret = None

(***************************************************************************)
(* SpecIter: the iterators Memmem and Memrmem, one next() call per step.   *)
(* out is what the iterator has yielded so far, nones how often it has     *)
(* returned None.                                                          *)
(***************************************************************************)
IterLongHays(n) == PlantedHays({64}, {33}, n)

IterInit ==
    /\ needle \in SeqsUpTo(Bytes, IterMaxNeedle)
    /\ haystack \in SeqsUpTo(Bytes, IterMaxHay) \cup IterLongHays(needle)
    /\ build \in Builds
    /\ freq \in SearchRankTables
    /\ op = "init"
    /\ ret = None
    /\ fwd = Memmem_new(haystack, Finder_new(needle, build))
    /\ rev = Memrmem_new(haystack)
    /\ ps = PrefilterState_new
    /\ hist = [seen_false |-> FALSE]
    /\ peer = NoIterator

\* The step past a match that advances by one byte, whatever the needle.
Memmem_advance_by_one(pos, n) == pos + 1

\* The step past a match by the needle's length alone: no step at all for
\* the empty needle.
Memmem_advance_by_len(pos, n) == pos + Len(n)

\* self.pos = pos + core::cmp::max(1, self.finder.needle().len())
Memmem_advance(pos, n) == pos + Max2(1, Len(n))

\* Memmem::next once the rest of the haystack has been searched with
\* result r: the new prefilter state is kept, a match is made absolute.
Memmem_yield(it, n, r) ==
    IF ~IsSome(r.ret)
    THEN [ret |-> r.ret, it |-> [it EXCEPT !.prestate = r.st]]
    ELSE [ret |-> Some(it.pos + r.ret.val),
          it |-> [it EXCEPT !.prestate = r.st,
                            !.pos = Memmem_advance(it.pos + r.ret.val, n)]]

\* <Memmem as Iterator>::next of an iterator over the Finder finder
Memmem_next_of(it, h, finder, g) ==
    IF it.pos > Len(h) THEN [ret |-> None, it |-> it]
    ELSE Memmem_yield(it, finder.needle,
            Forward_find_with(finder, it.prestate, From(h, it.pos), g))

\* The same for the Finder that Finder::new builds.
Memmem_next(it, h, n, bld, g) == Memmem_next_of(it, h, Finder_new(n, bld), g)

\* A subtraction that saturates at 0 instead of reporting the underflow.
checked_sub1_saturating(x) == IF x >= 1 THEN Some(x - 1) ELSE Some(0)

\* usize::checked_sub(1)
checked_sub1(x) == IF x >= 1 THEN Some(x - 1) ELSE None

\* The next bound without the pos == i case: it is always the match.
Memrmem_bound_keep(pos, r) == Some(r.val)

\* The bound after a match r found below pos.
Memrmem_bound(pos, r) ==
    IF pos = r.val THEN checked_sub1(pos) ELSE Some(r.val)

\* Memrmem::next once haystack[..pos] has been searched with result r.
Memrmem_yield(it, r) ==
    IF ~IsSome(r) THEN [ret |-> r, it |-> it]
    ELSE [ret |-> r, it |-> [it EXCEPT !.pos = Memrmem_bound(it.pos.val, r)]]

\* <Memrmem as Iterator>::next
Memrmem_next(it, h, n) ==
    IF ~IsSome(it.pos) THEN [ret |-> None, it |-> it]
    ELSE Memrmem_yield(it, Reverse_rfind(n, Slice(h, 0, it.pos.val)))

\* The bookkeeping of the yielded values.
Yielded(it, r) ==
    IF IsSome(r) THEN [it EXCEPT !.out = Append(it.out, r.val)]
    ELSE [it EXCEPT !.nones = it.nones + 1]

FwdNext ==
    /\ rev.out = <<>> /\ rev.nones = 0
    /\ fwd.nones < MaxNones
    /\ \E g \in Garbage(From(haystack, Min2(fwd.pos, Len(haystack))), build) :
          \E r \in {Memmem_next(fwd, haystack, needle, build, g)} :
              /\ fwd' = Yielded(r.it, r.ret)
              /\ ret' = r.ret
    /\ op' = "Memmem::next"
    /\ UNCHANGED <<haystack, needle, build, freq, rev, ps, hist, peer>>

RevNext ==
    /\ fwd.out = <<>> /\ fwd.nones = 0
    /\ rev.nones < MaxNones
    /\ \E r \in {Memrmem_next(rev, haystack, needle)} :
          /\ rev' = Yielded(r.it, r.ret)
          /\ ret' = r.ret
    /\ op' = "Memrmem::next"
    /\ UNCHANGED <<haystack, needle, build, freq, fwd, ps, hist, peer>>

IterNext == FwdNext \/ RevNext

SpecIter == IterInit /\ [][IterNext]_vars

Last(seq) == seq[Len(seq)]

\* C3: the last value Memmem::next has yielded is an occurrence of the
\* needle, and it is the leftmost one that starts at or after the previous
\* yielded value + max(1, |N|) (at or after 0 for the first); so it exceeds
\* the previous one by at least max(1, |N|).  Every yielded value is the
\* last one in the state after its call.
C3_ForwardIterator ==
    fwd.out # <<>> =>
        LET k == Len(fwd.out)
            p == fwd.out[k]
            from == IF k = 1 THEN 0
                    ELSE fwd.out[k - 1] + Max2(1, Len(needle))
        IN /\ k > 1 => p > fwd.out[k - 1]
           /\ p >= from
           /\ p + Len(needle) <= Len(haystack)
           /\ Slice(haystack, p, p + Len(needle)) = needle
           /\ from <= Len(haystack)
           /\ naive_find(From(haystack, from), needle) = Some(p - from)

\* Two matches of a two-byte needle, with an overlapping occurrence between
\* them that the iterator has skipped.
C3_Witness ==
    /\ Len(needle) = 2
    /\ Len(fwd.out) >= 2
    /\ fwd.out[2] = fwd.out[1] + 2
    /\ Slice(haystack, fwd.out[1] + 1, fwd.out[1] + 3) = needle

\* C4: a value p that Memrmem::next yields under the bound u is below the
\* value yielded before it; the bound becomes p when p < u and p - 1 when
\* p = u (None when that underflows, at p = 0); and for a non-empty needle
\* p is the rightmost occurrence that ends at or before the value yielded
\* before it (before the end of the haystack for the first).
C4_ReverseIterator ==
    [][(op' = "Memrmem::next" /\ IsSome(ret')) =>
        LET u == rev.pos.val
            p == ret'.val
            limit == IF rev.out = <<>> THEN Len(haystack) ELSE Last(rev.out)
        IN /\ IsSome(rev.pos)
           /\ rev.out # <<>> => p < Last(rev.out)
           /\ p < u => rev'.pos = Some(p)
           /\ (p = u /\ p > 0) => rev'.pos = Some(p - 1)
           /\ (p = u /\ p = 0) => rev'.pos = None
           /\ p <= u
           /\ needle # <<>> =>
                 /\ naive_rfind(Slice(haystack, 0, limit), needle) = Some(p)
                 /\ p + Len(needle) <= limit]_vars

\* Two matches of a two-byte needle, with an overlapping occurrence between
\* them that the iterator has skipped.
C4_Witness ==
    /\ Len(needle) = 2
    /\ Len(rev.out) >= 2
    /\ rev.out[2] + 2 = rev.out[1]
    /\ Slice(haystack, rev.out[1] - 1, rev.out[1] + 1) = needle

\* C6: with the empty needle the forward iterator yields 0, 1, ..., |H| in
\* this order and nothing more, and returns None only after all of them; the
\* reverse iterator yields |H|, ..., 1, 0 and nothing more, returns None only
\* after all of them, and its bound is None once it has yielded 0.
C6_EmptyNeedleIterators ==
    needle = <<>> =>
        /\ Len(fwd.out) <= Len(haystack) + 1
        /\ \A k \in 1..Len(fwd.out) : fwd.out[k] = k - 1
        /\ fwd.nones > 0 => Len(fwd.out) = Len(haystack) + 1
        /\ Len(rev.out) <= Len(haystack) + 1
        /\ \A k \in 1..Len(rev.out) : rev.out[k] = Len(haystack) - (k - 1)
        /\ rev.nones > 0 => Len(rev.out) = Len(haystack) + 1
        /\ Len(rev.out) = Len(haystack) + 1 <=> rev.pos = None

C6_Witness ==
    /\ needle = <<>>
    /\ Len(haystack) = 64
    /\ Len(rev.out) = 65
    /\ rev.nones = 1
    /\ ret = None

(***************************************************************************)
(* SpecIterLive: SpecIter with every next() call that can be made          *)
(* eventually made (the caller keeps calling next; a call is a terminating *)
(* function of the iterator and the haystack).                             *)
(***************************************************************************)
\* The guards of FwdNext and RevNext.  A call is total and always changes
\* out or nones, so this is ENABLED <<IterNext>>_vars.
IterNextEnabled ==
    \/ (rev.out = <<>> /\ rev.nones = 0 /\ fwd.nones < MaxNones)
    \/ (fwd.out = <<>> /\ fwd.nones = 0 /\ rev.nones < MaxNones)

\* WF_vars(IterNext), written out over IterNextEnabled.
IterFairness == []<>(~IterNextEnabled) \/ []<><<IterNext>>_vars

SpecIterLive == IterInit /\ [][IterNext]_vars /\ IterFairness

\* C16: neither iterator yields more than |H| + 1 positions; an iterator
\* that is called again and again eventually returns None; and once it has
\* returned None, every further call returns None and yields nothing.
C16_IteratorsFinite ==
    /\ [](Len(fwd.out) <= Len(haystack) + 1)
    /\ [](Len(rev.out) <= Len(haystack) + 1)
    /\ [][(fwd.nones > 0 /\ op' = "Memmem::next")
            => (ret' = None /\ fwd'.out = fwd.out)]_vars
    /\ [][(rev.nones > 0 /\ op' = "Memrmem::next")
            => (ret' = None /\ rev'.out = rev.out)]_vars
    /\ [](op = "Memmem::next" => <>(fwd.nones > 0))
    /\ [](op = "Memrmem::next" => <>(rev.nones > 0))

\* The forward iterator over a one-byte needle that fills the haystack has
\* yielded every position and has then returned None twice.
C16_Witness ==
    /\ Len(needle) = 1
    /\ Len(haystack) = IterMaxHay
    /\ Len(fwd.out) = IterMaxHay
    /\ fwd.nones = 2
    /\ op = "Memmem::next"
    /\ ret = None

(***************************************************************************)
(* SpecState: one PrefilterState driven through update and is_effective.   *)
(***************************************************************************)
\* The byte counts passed to update; the last one exceeds u32::MAX.
SkippedInputs == {USize(0), USize(8), [hi |-> Half, lo |-> 0]}

\* The number of update calls after which MIN_SKIP_BYTES * skips() reaches
\* 2^32.
WrapSkips == 536870912

\* u32::MAX - 2
AlmostMax == U32(Half - 1, Half - 3)

\* The states the runs start in, with what hist records of them: clean says
\* that the state started fresh and has seen nothing but k update calls
\* whose arguments sum to s, none of them above u32::MAX.  The third is the
\* state a fresh one is in after WrapSkips calls of update(0), the fourth a
\* state two updates and six bytes short of saturating both counters.
StateStarts ==
    {[ps |-> PrefilterState_new, clean |-> TRUE, k |-> 0, s |-> U32Zero],
     [ps |-> PrefilterState_inert, clean |-> FALSE, k |-> 0, s |-> U32Zero],
     [ps |-> [skips |-> U32Of(WrapSkips + 1), skipped |-> U32Zero],
      clean |-> TRUE, k |-> WrapSkips, s |-> U32Zero],
     [ps |-> [skips |-> AlmostMax, skipped |-> U32(Half - 1, Half - 6)],
      clean |-> FALSE, k |-> 0, s |-> U32Zero]}

StateInit ==
    /\ needle = <<>>
    /\ haystack = <<>>
    /\ build = "scalar"
    /\ freq = RankUp
    /\ op = "init"
    /\ ret = None
    /\ fwd = NoIterator
    /\ rev = NoIterator
    /\ \E start \in StateStarts :
          /\ ps = start.ps
          /\ hist = [seen_false |-> FALSE, clean |-> start.clean,
                     k |-> start.k, s |-> start.s, arg |-> USize(0)]
    /\ peer = NoIterator

\* x + y exceeds u32::MAX
SumExceedsU32(x, y) == x.hi + y.hi + ((x.lo + y.lo) \div Half) >= Half

\* hist after update(skipped): k and s (a 32-bit value) are counted while
\* the state is clean, and forgotten by the first update after that; arg is
\* the argument of the last update.
Updated(h, skipped) ==
    IF ~h.clean \/ SumExceedsU32(h.s, skipped)
    THEN [h EXCEPT !.clean = FALSE, !.k = 0, !.s = U32Zero, !.arg = skipped]
    ELSE [h EXCEPT !.k = h.k + 1, !.s = saturating_add(h.s, skipped),
                   !.arg = skipped]

CallUpdate ==
    /\ U32Lt(ps.skips, U32Of(MaxSkips)) \/ U32Ge(ps.skips, AlmostMax)
    /\ \E skipped \in SkippedInputs :
          /\ ps' = update(ps, skipped)
          /\ hist' = Updated(hist, skipped)
    /\ op' = "update"
    /\ UNCHANGED <<haystack, needle, build, freq, ret, fwd, rev, peer>>

CallIsEffective ==
    /\ \E r \in {is_effective(ps)} :
          /\ ps' = r.st
          /\ ret' = r.ret
          /\ hist' = [hist EXCEPT !.seen_false = hist.seen_false \/ ~r.ret,
                                  !.clean = hist.clean /\ r.ret]
    /\ op' = "is_effective"
    /\ UNCHANGED <<haystack, needle, build, freq, fwd, rev, peer>>

StateNext == CallUpdate \/ CallIsEffective

SpecState == StateInit /\ [][StateNext]_vars

\* C9: once is_effective has returned false, every later is_effective call
\* returns false; and no step, update included, takes an inert state
\* (skips = 0) to one that is not inert.
C9_InertForever ==
    [][/\ (hist.seen_false /\ op' = "is_effective") => ret' = FALSE
       /\ is_inert(ps) => is_inert(ps')]_vars

\* is_effective has returned false on this state, and now returns true.
C9_Reenabled ==
    /\ hist.seen_false
    /\ op = "is_effective"
    /\ ret = TRUE

\* The mathematical threshold: fewer than MIN_SKIPS updates, or at least
\* MIN_SKIP_BYTES bytes skipped per update (s >= MIN_SKIP_BYTES * k, with
\* the 32-bit value s divided instead of k multiplied).
Effective(k, s) ==
    \/ k < MIN_SKIPS
    \/ s.hi * (Half \div MIN_SKIP_BYTES) + (s.lo \div MIN_SKIP_BYTES) >= k

\* C17: on a state that started fresh and has received k update calls whose
\* arguments sum to s without saturation, is_effective returns true and
\* leaves the state alone when k < MIN_SKIPS or s >= MIN_SKIP_BYTES * k,
\* and otherwise sets skips to 0 and returns false.
C17_EffectiveThresholds ==
    [][(hist.clean /\ op' = "is_effective") =>
          IF Effective(hist.k, hist.s)
          THEN ret' = TRUE /\ ps' = ps
          ELSE ret' = FALSE /\ ps' = [ps EXCEPT !.skips = U32Zero]]_vars

\* After WrapSkips updates that skipped nothing, is_effective has returned
\* true.
C17_TrueAfterWrap ==
    /\ op = "is_effective"
    /\ ret = TRUE
    /\ hist.clean
    /\ hist.k = WrapSkips
    /\ hist.s = U32Zero

\* Below WrapSkips updates the thresholds are the stated ones.
C17_BelowWrap ==
    [][(hist.clean /\ hist.k < WrapSkips /\ op' = "is_effective") =>
          IF Effective(hist.k, hist.s)
          THEN ret' = TRUE /\ ps' = ps
          ELSE ret' = FALSE /\ ps' = [ps EXCEPT !.skips = U32Zero]]_vars

\* is_effective has just made a state inert that 50 updates had taken one
\* byte-count short of 8 bytes a call.
C17_BelowWrapWitness ==
    /\ op = "is_effective"
    /\ ret = FALSE
    /\ hist.k = MIN_SKIPS
    /\ hist.s = U32Of(MIN_SKIP_BYTES * (MIN_SKIPS - 1))
    /\ ps = [skips |-> U32Zero, skipped |-> hist.s]

\* is_effective on the state st evaluates MIN_SKIP_BYTES * skips(): st is
\* not inert and skips() is not below MIN_SKIPS.
ProductEvaluated(st) ==
    ~is_inert(st) /\ ~U32Lt(skips(st), U32Of(MIN_SKIPS))

\* The exact product MIN_SKIP_BYTES * skips() is 2^32 or more.
ProductExceedsU32(st) == skips(st).hi >= Half \div MIN_SKIP_BYTES

\* C30: whenever is_effective evaluates MIN_SKIP_BYTES * skips(), the
\* product is at most 2^32 - 1.
C30_ProductFits ==
    [][(op' = "is_effective" /\ ProductEvaluated(ps)) =>
            ~ProductExceedsU32(ps)]_vars

\* is_effective has run on skips = 2^29 + 1 and skipped = 0: the product
\* 8 * 2^29 is 2^32, in 32 bits 0, and the test 0 >= 0 returned true.
C30_ProductWraps ==
    /\ op = "is_effective"
    /\ ps = [skips |-> U32Of(WrapSkips + 1), skipped |-> U32Zero]
    /\ ProductEvaluated(ps)
    /\ ProductExceedsU32(ps)
    /\ mul_min_skip_bytes(skips(ps)) = U32Zero
    /\ ret = TRUE

\* The exact sum of two values below 2^33, in the same two halves: hi is
\* Half or more when the sum exceeds u32::MAX.
Plus(x, y) ==
    [hi |-> x.hi + y.hi + ((x.lo + y.lo) \div Half),
     lo |-> (x.lo + y.lo) % Half]

\* min(x, 2^32 - 1)
Clamp(x) == IF x.hi >= Half THEN U32Max ELSE x

\* C18: update(s) leaves skips = min(skips + 1, 2^32 - 1) and
\* skipped = min(skipped + min(s, 2^32 - 1), 2^32 - 1); neither counter
\* decreases, and a state with skips >= 1 keeps skips >= 1.
C18_UpdateSaturates ==
    [][op' = "update" =>
          /\ ps'.skips = Clamp(Plus(ps.skips, U32Of(1)))
          /\ ps'.skipped = Clamp(Plus(ps.skipped, Clamp(hist'.arg)))
          /\ U32Ge(ps'.skips, ps.skips)
          /\ U32Ge(ps'.skipped, ps.skipped)
          /\ ~is_inert(ps) => ~is_inert(ps')]_vars

\* Both counters have saturated, the last update having added 8 bytes.
C18_Witness ==
    /\ op = "update"
    /\ hist.arg = USize(8)
    /\ ps = [skips |-> U32Max, skipped |-> U32Max]

(***************************************************************************)
(* SpecPre: one direct call of a forward prefilter with a fresh state, as  *)
(* the prefilter tests make it.                                            *)
(***************************************************************************)
\* Haystack lengths around the vector sizes, and one long enough for the
\* scalar prefilter to be found ineffective.
PreLens == {17, 18, 33, 60}
PreNeedles == {n \in SeqsUpTo(Bytes, PreMaxNeedle) : Len(n) >= 2}

PreInit ==
    /\ needle \in PreNeedles
    /\ haystack \in SeqsUpTo(Bytes, PreMaxHay)
                        \cup PlantedHays(PreLens, {9}, needle)
    /\ build = "scalar"
    /\ freq \in RankTables
    /\ Idle

CallPrefilter(name, prefn) ==
    /\ op = "init"
    /\ \E skip_first_byte \in BOOLEAN :
          LET ninfo == NeedleInfo_forward(needle, skip_first_byte)
              r == Freqy_find(prefn, PrefilterState_new, ninfo,
                              haystack, needle)
          IN ret' = r.ret /\ ps' = r.st
    /\ op' = name
    /\ UNCHANGED <<haystack, needle, build, freq, fwd, rev, hist, peer>>

CallFallbackFind == CallPrefilter("fallback::find", "fallback")
CallSseFind == CallPrefilter("sse::find", "sse")
CallAvxFind == CallPrefilter("avx::find", "avx")

PreNext == CallFallbackFind \/ CallSseFind \/ CallAvxFind

SpecPre == PreInit /\ [][PreNext]_vars

PreOps == {"fallback::find", "sse::find", "avx::find"}

\* C8: a forward prefilter called with a fresh state on a haystack in which
\* the needle first occurs at p returns Some(q) with q <= p; so it returns
\* None only when the needle does not occur.  It does not panic.
C8_NoFalseNegative ==
    op \in PreOps =>
        /\ ret.tag # "Panic"
        /\ LET p == naive_find(haystack, needle) IN
           IsSome(p) => (IsSome(ret) /\ ret.val <= p.val)

\* The scalar prefilter has given up (its state is inert) before the only
\* occurrence, and still reports a candidate at or before it.
C8_Witness ==
    /\ op = "fallback::find"
    /\ is_inert(ps)
    /\ IsSome(ret)
    /\ naive_find(haystack, needle) = Some(Len(haystack) - Len(needle))
    /\ ret.val < Len(haystack) - Len(needle)

\* Whether the call made from the fresh state (skips = 1) has called
\* update: every update adds 1 to skips, and is_effective can only set it
\* to 0, which it does after MIN_SKIPS updates at the earliest.
CalledUpdate == ps.skips # PrefilterState_new.skips

\* C19: a prefilter that has returned, with a candidate or with None, has
\* called update on the PrefilterState at least once during the call.
C19_UpdateOnEveryReturn ==
    (op \in PreOps /\ ret.tag # "Panic") => CalledUpdate

\* sse::find has returned a candidate on a haystack shorter than
\* rare2i + 16 bytes and has left the fresh state as it was.
C19_ShortHaystackNoUpdate ==
    /\ op = "sse::find"
    /\ Len(haystack) = PreMaxHay
    /\ IsSome(ret)
    /\ ps = PrefilterState_new

(***************************************************************************)
(* SpecRange: one direct call of a forward prefilter or of the reverse one *)
(* with a state that is fresh, inert, or used so far that the call makes   *)
(* it inert.                                                               *)
(***************************************************************************)
RangeMaxNeedle == 3
RangeMaxHay == 3
RangeLens == {17, 33}

\* A state one update short of the effectiveness test, with nothing skipped.
PrefilterState_due == [skips |-> U32Of(MIN_SKIPS), skipped |-> U32Zero]

EntryStates == {PrefilterState_new, PrefilterState_inert, PrefilterState_due}

RangeInit ==
    /\ needle \in {n \in SeqsUpTo(Bytes, RangeMaxNeedle) : Len(n) >= 2}
    /\ haystack \in SeqsUpTo(Bytes, RangeMaxHay)
                        \cup PlantedHays(RangeLens, {9}, needle)
    /\ build = "scalar"
    /\ freq \in RankTables
    /\ op = "init"
    /\ ret = None
    /\ fwd = NoIterator
    /\ rev = NoIterator
    /\ ps \in EntryStates
    /\ hist = [entry |-> ps]
    /\ peer = NoIterator

RangeForward(name, prefn) ==
    /\ op = "init"
    /\ \E skip_first_byte \in BOOLEAN :
          \E r \in {Freqy_find(prefn, ps,
                        NeedleInfo_forward(needle, skip_first_byte),
                        haystack, needle)} :
              ret' = r.ret /\ ps' = r.st
    /\ op' = name
    /\ UNCHANGED <<haystack, needle, build, freq, fwd, rev, hist, peer>>

RangeFallbackFind == RangeForward("fallback::find", "fallback")
RangeSseFind == RangeForward("sse::find", "sse")
RangeAvxFind == RangeForward("avx::find", "avx")

RangeFallbackRfind ==
    /\ op = "init"
    /\ \E skip_first_byte \in BOOLEAN :
          \E r \in {fallback_rfind(ps,
                        NeedleInfo_reverse(needle, skip_first_byte),
                        haystack, needle)} :
              ret' = r.ret /\ ps' = r.st
    /\ op' = "fallback::rfind"
    /\ UNCHANGED <<haystack, needle, build, freq, fwd, rev, hist, peer>>

RangeNext ==
    RangeFallbackFind \/ RangeSseFind \/ RangeAvxFind \/ RangeFallbackRfind

SpecRange == RangeInit /\ [][RangeNext]_vars

\* C20: a position returned by a forward prefilter lies in [0, |H| - 1] and
\* one returned by the reverse prefilter in [1, |H|], whatever the state on
\* entry.
C20_PositionRanges ==
    /\ (op \in PreOps /\ IsSome(ret)) =>
            (0 <= ret.val /\ ret.val <= Len(haystack) - 1)
    /\ (op = "fallback::rfind" /\ IsSome(ret)) =>
            (1 <= ret.val /\ ret.val <= Len(haystack))

\* fallback::find, entered with a used state on a non-empty haystack, has
\* made the state inert and has returned |H|.
C20_ForwardPastEnd ==
    /\ op = "fallback::find"
    /\ haystack # <<>>
    /\ hist.entry = PrefilterState_due
    /\ is_inert(ps)
    /\ ret = Some(Len(haystack))

\* A prefilter that returns with an effective (not inert) state returns a
\* position in its range.
C20_EffectiveInRange ==
    ~is_inert(ps) => C20_PositionRanges

\* The reverse prefilter has returned |H| for a needle that ends the
\* haystack, entered with a fresh state.
C20_EffectiveInRangeWitness ==
    /\ op = "fallback::rfind"
    /\ hist.entry = PrefilterState_new
    /\ ~is_inert(ps)
    /\ Len(haystack) = 17
    /\ ret = Some(Len(haystack))

(***************************************************************************)
(* SpecProps: one call of memmem or memrmem with a prefix or a suffix of   *)
(* the haystack as the needle (testprops::prefix_is_substring and          *)
(* suffix_is_substring).  Short haystacks are taken with every prefix and  *)
(* suffix; long ones are a short word repeated, so that a prefix or suffix *)
(* occurs many times, with those of length up to PropMaxCut.               *)
(***************************************************************************)
PropMaxHay == 4
PropMaxWord == 3
PropMaxCut == 9
PropLens == {63, 64, 65}

\* The word w repeated up to len bytes.
Cycle(w, len) == [i \in 1..len |-> w[((i - 1) % Len(w)) + 1]]

PropHays ==
    SeqsUpTo(Bytes, PropMaxHay)
    \cup {Cycle(w, len) : w \in SeqsUpTo(Bytes, PropMaxWord) \ {<<>>},
                          len \in PropLens}

PropCuts(bs) ==
    IF Len(bs) <= PropMaxHay THEN 0..Len(bs) ELSE 0..PropMaxCut

\* &bs[..i] and &bs[i..]
PrefixOf(bs, i) == Slice(bs, 0, i)
SuffixOf(bs, i) == From(bs, i)

PropsInit ==
    /\ haystack \in PropHays
    /\ \E k \in PropCuts(haystack) :
          needle \in {PrefixOf(haystack, k),
                      SuffixOf(haystack, Len(haystack) - k)}
    /\ build \in Builds
    /\ freq \in SearchRankTables
    /\ Idle

SpecProps == PropsInit /\ [][SearchNext]_vars

IsPrefixOf(bs, n) == Len(n) <= Len(bs) /\ PrefixOf(bs, Len(n)) = n
IsSuffixOf(bs, n) == Len(n) <= Len(bs) /\ SuffixOf(bs, Len(bs) - Len(n)) = n

\* C11: when the needle is a prefix of the haystack, memmem returns Some(0)
\* and memrmem returns what the naive reverse reference returns.
C11_PrefixIsSubstring ==
    IsPrefixOf(haystack, needle) =>
        /\ op = "memmem" => ret = Some(0)
        /\ op = "memrmem" => ret = naive_rfind(haystack, needle)

\* A prefix too long for the vector searcher, on a haystack that Two-Way
\* searches, found at 0.
C11_Witness ==
    /\ op = "memmem"
    /\ Len(haystack) = 64
    /\ Len(needle) = PropMaxCut
    /\ IsPrefixOf(haystack, needle)
    /\ ret = Some(0)

\* C12: when the needle is a suffix of the haystack of length k, memrmem
\* returns Some(|H| - k), and memmem returns what the naive forward
\* reference returns, which is at most |H| - k.
C12_SuffixIsSubstring ==
    IsSuffixOf(haystack, needle) =>
        /\ op = "memrmem" => ret = Some(Len(haystack) - Len(needle))
        /\ op = "memmem" =>
              /\ ret = naive_find(haystack, needle)
              /\ IsSome(ret)
              /\ ret.val <= Len(haystack) - Len(needle)

\* A suffix that also occurs earlier: the reverse search reports the one at
\* the end.
C12_Witness ==
    /\ op = "memrmem"
    /\ Len(haystack) = 65
    /\ Len(needle) = 3
    /\ IsSuffixOf(haystack, needle)
    /\ naive_find(haystack, needle) # Some(Len(haystack) - Len(needle))
    /\ ret = Some(Len(haystack) - Len(needle))

(***************************************************************************)
(* SpecBuilder: a Finder built with Prefilter::None, searched with find    *)
(* and iterated with find_iter.  peer is the iterator of the Finder that   *)
(* Prefilter::Auto builds for the same needle, stepped together with it.   *)
(***************************************************************************)
BuilderMaxNeedle == 3
BuilderMaxHay == 3

FinderNone == FinderBuilder_build_forward("None", needle, build)
FinderAuto == FinderBuilder_build_forward("Auto", needle, build)

BuilderInit ==
    /\ needle \in SeqsUpTo(Bytes, BuilderMaxNeedle)
    /\ haystack \in SeqsUpTo(Bytes, BuilderMaxHay)
                        \cup PlantedHays({64}, {33}, needle)
    /\ build \in Builds
    /\ freq \in RankTables
    /\ op = "init"
    /\ ret = None
    /\ fwd = Memmem_new(haystack, FinderNone)
    /\ peer = Memmem_new(haystack, FinderAuto)
    /\ rev = NoIterator
    /\ ps = Forward_prefilter_state(FinderNone)
    /\ hist = [seen_false |-> FALSE]

\* Finder::find: find_with on the state prefilter_state() hands out.
BuilderFind ==
    /\ op = "init"
    /\ \E r \in {Forward_find_with(FinderNone, ps, haystack, 0)} :
          ret' = r.ret /\ ps' = r.st
    /\ op' = "Finder::find"
    /\ UNCHANGED <<haystack, needle, build, freq, fwd, rev, hist, peer>>

\* One next call on each of the two iterators.
BuilderIterNext ==
    /\ op # "Finder::find"
    /\ fwd.nones < MaxNones
    /\ \E g \in Garbage(From(haystack, Min2(peer.pos, Len(haystack))), build) :
       \E a \in {Memmem_next_of(fwd, haystack, FinderNone, 0)},
          b \in {Memmem_next_of(peer, haystack, FinderAuto, g)} :
          /\ fwd' = Yielded(a.it, a.ret)
          /\ peer' = Yielded(b.it, b.ret)
          /\ ret' = a.ret
    /\ op' = "Memmem::next"
    /\ UNCHANGED <<haystack, needle, build, freq, rev, ps, hist>>

BuilderNext == BuilderFind \/ BuilderIterNext

SpecBuilder == BuilderInit /\ [][BuilderNext]_vars

\* C13: the PrefilterState of a search and of an iterator over a Finder
\* built with Prefilter::None is inert from the start and stays inert, so
\* is_effective returns false on it; find returns what the Finder built with
\* Prefilter::Auto returns, and the iterator yields what the iterator of
\* that Finder yields.
C13_PrefilterNone ==
    /\ is_inert(ps) /\ ~is_effective(ps).ret
    /\ is_inert(fwd.prestate) /\ ~is_effective(fwd.prestate).ret
    /\ fwd.out = peer.out /\ fwd.nones = peer.nones
    /\ op = "Finder::find" =>
          \A g \in Garbage(haystack, build) :
              ret = Forward_find(FinderAuto, haystack, g)

\* The iterators have yielded the same match of a long haystack; the one
\* built with Auto has a state in use, the one built with None an inert one.
C13_Witness ==
    /\ op = "Memmem::next"
    /\ Len(haystack) = 64
    /\ fwd.out = <<33>>
    /\ peer.out = <<33>>
    /\ ~is_inert(peer.prestate)
    /\ is_inert(fwd.prestate)

(***************************************************************************)
(* SpecShare: two iterators (fwd and peer) and find calls over one         *)
(* haystack, all on the same Finder, their calls interleaved in any order. *)
(* hist keeps the Finder and the haystack as they were at the start.       *)
(***************************************************************************)
ShareMaxNeedle == 2
ShareMaxHay == 3
ShareMaxCalls == 3

\* The number of next calls an iterator has answered.
Calls(it) == Len(it.out) + it.nones

\* The PrefilterState a call of next on the iterator it works on: its own.
\* other is the other iterator on the same Finder.
Prestate_shared(it, other) == other.prestate
Prestate_own(it, other) == it.prestate

ShareInit ==
    /\ needle \in SeqsUpTo(Bytes, ShareMaxNeedle)
    /\ haystack \in SeqsUpTo(Bytes, ShareMaxHay)
                        \cup PlantedHays({64}, {33}, needle)
    /\ build \in Builds
    /\ freq \in SearchRankTables
    /\ op = "init"
    /\ ret = None
    /\ fwd = Memmem_new(haystack, Finder_new(needle, build))
    /\ peer = Memmem_new(haystack, Finder_new(needle, build))
    /\ rev = NoIterator
    /\ ps = PrefilterState_new
    /\ hist = [seen_false |-> FALSE, finder |-> Finder_new(needle, build),
               haystack |-> haystack]

\* A next call on the first iterator.
ShareNextA ==
    /\ Calls(fwd) < ShareMaxCalls
    /\ \E g \in Garbage(From(haystack, Min2(fwd.pos, Len(haystack))), build) :
       \E r \in {Memmem_next([fwd EXCEPT !.prestate = Prestate_own(fwd, peer)],
                              haystack, needle, build, g)} :
          /\ fwd' = Yielded(r.it, r.ret)
          /\ ret' = r.ret
    /\ op' = "A.next"
    /\ UNCHANGED <<haystack, needle, build, freq, rev, ps, hist, peer>>

\* A next call on the second iterator.
ShareNextB ==
    /\ Calls(peer) < ShareMaxCalls
    /\ \E g \in Garbage(From(haystack, Min2(peer.pos, Len(haystack))), build) :
       \E r \in {Memmem_next([peer EXCEPT !.prestate = Prestate_own(peer, fwd)],
                              haystack, needle, build, g)} :
          /\ peer' = Yielded(r.it, r.ret)
          /\ ret' = r.ret
    /\ op' = "B.next"
    /\ UNCHANGED <<haystack, needle, build, freq, fwd, rev, ps, hist>>

\* A Finder::find call between the calls of the iterators.
ShareFind ==
    /\ \E g \in Garbage(haystack, build) :
          ret' = Forward_find(Finder_new(needle, build), haystack, g)
    /\ op' = "Finder::find"
    /\ UNCHANGED <<haystack, needle, build, freq, fwd, rev, ps, hist, peer>>

ShareNext == ShareNextA \/ ShareNextB \/ ShareFind

SpecShare == ShareInit /\ [][ShareNext]_vars

\* The iterator over the haystack run alone for k next calls.
AfterCall(r) == Yielded(r.it, r.ret)

RECURSIVE Alone(_)
Alone(k) ==
    IF k = 0 THEN Memmem_new(haystack, Finder_new(needle, build))
    ELSE AfterCall(Memmem_next(Alone(k - 1), haystack, needle, build, 0))

AlgoLens == {17, 18, 33, 34}

AlgoInit ==
    /\ needle \in SeqsUpTo(Bytes, AlgoMaxNeedle)
    /\ haystack \in SeqsUpTo(Bytes, AlgoMaxHay)
                        \cup PlantedHays(AlgoLens, {9}, needle)
    /\ build = "scalar"
    /\ freq \in RankTables
    /\ Idle

CallRabinKarp ==
    /\ op = "init"
    /\ ret' = rk_find(haystack, needle)
    /\ op' = "rabinkarp::find"
    /\ UNCHANGED <<haystack, needle, build, freq, fwd, rev, ps, hist, peer>>

\* fwd_find::<V> on a needle Forward::new accepts and a haystack of at least
\* min_haystack_len::<V> bytes.
CallFwdFind(name, V) ==
    /\ op = "init"
    /\ \E skip_first_byte \in BOOLEAN, g \in Bytes :
          LET ninfo == NeedleInfo_forward(needle, skip_first_byte)
              f == genericsimd_Forward_new(ninfo, needle)
          IN /\ f.tag = "Some"
             /\ Len(haystack) >= min_haystack_len(f, V)
             /\ ret' = fwd_find(V, f, haystack, needle, g)
    /\ op' = name
    /\ UNCHANGED <<haystack, needle, build, freq, fwd, rev, ps, hist, peer>>

CallFwdFindSse == CallFwdFind("fwd_find::<__m128i>", SSE_VECTOR_SIZE)
CallFwdFindAvx == CallFwdFind("fwd_find::<__m256i>", AVX_VECTOR_SIZE)

\* The Two-Way forward search with the prefilter that Freqy::forward selects
\* for the vector support bld.
twoway_find(h, n, bld) ==
    LET freqy == Freqy_forward("Auto", n, bld) IN
    twoway_find_loop(TwoWay_new(n), freqy, Freqy_state(freqy), h, n, 0, 0)

CallTwoWay ==
    /\ op = "init"
    /\ Len(needle) >= 1
    /\ \E bld \in Builds :
          LET r == twoway_find(haystack, needle, bld) IN
          ret' = r.ret /\ ps' = r.st
    /\ op' = "twoway::find"
    /\ UNCHANGED <<haystack, needle, build, freq, fwd, rev, hist, peer>>

AlgoNext ==
    CallRabinKarp \/ CallFwdFindSse \/ CallFwdFindAvx \/ CallTwoWay

SpecAlgo == AlgoInit /\ [][AlgoNext]_vars

AlgoOps ==
    {"rabinkarp::find", "fwd_find::<__m128i>", "fwd_find::<__m256i>",
     "twoway::find"}

\* C10: Rabin-Karp, fwd_find (where it applies) and Two-Way each return what
\* the naive leftmost-match reference returns.
C10_AlgorithmsMatchNaive ==
    op \in AlgoOps => ret = naive_find(haystack, needle)

\* fwd_find reports the match that only the final overlapping chunk covers.
C10_Witness ==
    /\ op = "fwd_find::<__m128i>"
    /\ Len(haystack) = 34
    /\ Len(needle) = 2
    /\ ret = Some(32)

(***************************************************************************)
(* Step counts.  The cost of a search is the number of iterations of its   *)
(* loops plus the number of bytes it compares or scans; a vector compare   *)
(* of a chunk and a 64-bit compare of a candidate count as one each.  The  *)
(* counts follow the searches above step by step: a loop is run with a     *)
(* cost field added to its record.                                         *)
(***************************************************************************)
\* The bytes memchr or memrchr looks at in a slice of len bytes.
scan_cost(found, len) == IF IsSome(found) THEN found.val + 1 ELSE len
rscan_cost(found, len) == IF IsSome(found) THEN len - found.val ELSE len

\* One iteration of fallback::find: the test, the scan for rare1 and the
\* look at the rare2 byte.
fallback_step_cost(ninfo, h, n, s) ==
    IF ~is_effective(s.st).ret THEN 1
    ELSE 2 + scan_cost(memchr(fwd_rare(ninfo, n)[1], From(h, s.i)),
                       Len(h) - s.i)

fallback_find_cost(st, ninfo, h, n) ==
    LET Step(s) == [fallback_step(ninfo, h, n, s) EXCEPT
                        !.cost = s.cost + fallback_step_cost(ninfo, h, n, s)]
    IN Loop(Step, [i |-> 0, st |-> st, done |-> FALSE, ret |-> None,
                   cost |-> 0], LoopLog).cost

\* The chunks Find::run loads, from ptr on.
RECURSIVE simd_run_cost(_, _, _, _, _, _)
simd_run_cost(V, h, n, rare1i, rare2i, ptr) ==
    IF ptr <= Len(h) - (rare2i + V)
    THEN IF IsSome(find_in_chunk2(V, h, n, rare1i, rare2i, ptr)) THEN 1
         ELSE 1 + simd_run_cost(V, h, n, rare1i, rare2i, ptr + V)
    ELSE IF ptr < Len(h) THEN 1 ELSE 0

sse_find_cost(ninfo, h, n) ==
    IF Len(h) < as_rare_ordered_usize(ninfo)[2] + SSE_VECTOR_SIZE
    THEN scan_cost(memchr(At(n, as_rare_ordered_usize(ninfo)[1]), h), Len(h))
    ELSE simd_run_cost(SSE_VECTOR_SIZE, h, n, as_rare_ordered_usize(ninfo)[1],
                       as_rare_ordered_usize(ninfo)[2], 0)

avx_find_cost(ninfo, h, n) ==
    IF Len(h) < as_rare_ordered_usize(ninfo)[2] + AVX_VECTOR_SIZE
    THEN sse_find_cost(ninfo, h, n)
    ELSE simd_run_cost(AVX_VECTOR_SIZE, h, n, as_rare_ordered_usize(ninfo)[1],
                       as_rare_ordered_usize(ninfo)[2], 0)

Freqy_find_cost(prefn, st, ninfo, h, n) ==
    CASE prefn = "fallback" -> fallback_find_cost(st, ninfo, h, n)
      [] prefn = "sse" -> sse_find_cost(ninfo, h, n)
      [] prefn = "avx" -> avx_find_cost(ninfo, h, n)

\* The bytes match_right compares from index from on, having stopped at i.
match_right_cost(n, from, i) == (i - from) + (IF i < Len(n) THEN 1 ELSE 0)

\* The bytes match_left compares.
match_left_cost(h, n, pos, crit_pos, memory) ==
    LET differ == {j \in (memory + 1)..crit_pos :
                      At(n, j - 1) # At(h, pos + j - 1)}
        Upto(d) == IF d = {} THEN Max2(0, crit_pos - memory)
                   ELSE crit_pos + 1 - (CHOOSE j \in d : \A k \in d : k <= j)
    IN Bind(Upto, differ)

\* The comparisons of one window at pos1, after a prefilter call of cost c.
twoway_window_cost(tw, h, n, pos1, mem1, i, c) ==
    1 + c + match_right_cost(n, right_start(tw, mem1), i)
      + (IF i < Len(n) THEN 0
         ELSE match_left_cost(h, n, pos1, tw.crit_pos, mem1))

\* One iteration of the forward scan after its prefilter call pre of cost c.
twoway_after_prefilter_cost(tw, h, n, s, mem1, pre, c) ==
    IF ~IsSome(pre.ret) THEN 1 + c
    ELSE IF s.pos + pre.ret.val + Len(n) > Len(h) THEN 1 + c
    ELSE twoway_window_cost(tw, h, n, s.pos + pre.ret.val, mem1,
            match_right(h, n, s.pos + pre.ret.val, right_start(tw, mem1)),
            c)

twoway_step_cost(tw, freqy, h, n, s) ==
    IF s.pos + Len(n) > Len(h) THEN 1
    ELSE IF is_effective(s.st).ret
    THEN twoway_after_prefilter_cost(tw, h, n, s, 0,
            Freqy_find(freqy.prefn, is_effective(s.st).st, freqy.ninfo,
                       From(h, s.pos), n),
            Freqy_find_cost(freqy.prefn, is_effective(s.st).st, freqy.ninfo,
                            From(h, s.pos), n))
    ELSE twoway_after_prefilter_cost(tw, h, n, s, s.memory,
            [ret |-> Some(0), st |-> is_effective(s.st).st], 0)

twoway_find_cost(tw, freqy, st, h, n) ==
    LET Step(s) == [twoway_step(tw, freqy, h, n, s) EXCEPT
                        !.cost = s.cost + twoway_step_cost(tw, freqy, h, n, s)]
    IN Loop(Step, [pos |-> 0, memory |-> 0, st |-> st, done |-> FALSE,
                   ret |-> None, cost |-> 0], LoopLog).cost

\* Rabin-Karp: the hash of the first window, then one step per window and
\* the comparison of the needle where the hashes agree.
rk_find_cost(h, n) ==
    IF Len(h) < Len(n) THEN 0
    ELSE LET nhash == NeedleHash_new(n)
             Step(s) == [rk_step(nhash, h, n, s) EXCEPT
                            !.cost = s.cost + 1
                                + (IF nhash.hash = s.hash THEN Len(n) ELSE 0)]
         IN Loop(Step, [off |-> 0,
                        hash |-> hash_from_bytes(Slice(h, 0, Len(n))),
                        done |-> FALSE, ret |-> None, cost |-> Len(n)],
                 LoopLog).cost

rk_rfind_cost(h, n) ==
    IF Len(h) < Len(n) THEN 0
    ELSE LET nhash == NeedleHash_reverse(n)
             Step(s) == [rk_rstep(nhash, h, n, s) EXCEPT
                            !.cost = s.cost + 1
                                + (IF nhash.hash = s.hash THEN Len(n) ELSE 0)]
         IN Loop(Step,
                [end |-> Len(h),
                 hash |-> hash_from_bytes_rev(
                            Slice(h, Len(h) - Len(n), Len(h))),
                 done |-> FALSE, ret |-> None, cost |-> Len(n)],
                 LoopLog).cost

\* fwd_find: one per chunk and one per candidate it confirms.
chunk_cost(V, f, h, n, ptr, lo, g) ==
    LET lanes == {k \in chunk2_lanes(V, h, n, f.rare1i, f.rare2i, ptr) :
                     k >= lo}
        stop == {k \in lanes : \/ ptr + k > Len(h) - Len(n)
                               \/ confirm(f, h, n, ptr + k, g)}
        Visited(st) ==
            IF st = {} THEN Cardinality(lanes)
            ELSE Cardinality({k \in lanes : k <= trailing_zeros(st)})
    IN 1 + Bind(Visited, stop)

RECURSIVE fwd_find_loop_cost(_, _, _, _, _, _)
fwd_find_loop_cost(V, f, h, n, ptr, g) ==
    IF ptr <= Len(h) - min_haystack_len(f, V)
    THEN IF IsSome(fwd_find_in_chunk2(V, f, h, n, ptr, 0, g))
         THEN chunk_cost(V, f, h, n, ptr, 0, g)
         ELSE chunk_cost(V, f, h, n, ptr, 0, g)
                + fwd_find_loop_cost(V, f, h, n, ptr + V, g)
    ELSE IF ptr < Len(h) /\ Len(h) - ptr >= Len(n)
    THEN chunk_cost(V, f, h, n, Len(h) - min_haystack_len(f, V),
                    ptr - (Len(h) - min_haystack_len(f, V)), g)
    ELSE 0

fwd_find_cost(V, f, h, n, g) ==
    IF Len(h) < min_haystack_len(f, V) THEN 0
    ELSE fwd_find_loop_cost(V, f, h, n, 0, g)

\* The cost of twoway::Forward::find_with, by the dispatcher's cases.
Forward_find_cost(fw, st, h, g) ==
    IF Len(fw.needle) = 0 THEN 0
    ELSE IF Len(fw.needle) = 1
    THEN scan_cost(memchr(At(fw.needle, 0), h), Len(h))
    ELSE IF Len(h) < RABIN_KARP_CUTOVER THEN rk_find_cost(h, fw.needle)
    ELSE IF fw.avx.tag = "Some"
            /\ Len(h) >= min_haystack_len(fw.avx, SSE_VECTOR_SIZE)
    THEN IF Len(h) < min_haystack_len(fw.avx, AVX_VECTOR_SIZE)
         THEN fwd_find_cost(SSE_VECTOR_SIZE, fw.avx, h, fw.needle, g)
         ELSE fwd_find_cost(AVX_VECTOR_SIZE, fw.avx, h, fw.needle, g)
    ELSE IF fw.sse.tag = "Some"
            /\ Len(h) >= min_haystack_len(fw.sse, SSE_VECTOR_SIZE)
    THEN fwd_find_cost(SSE_VECTOR_SIZE, fw.sse, h, fw.needle, g)
    ELSE twoway_find_cost(fw.tw, fw.freqy, st, h, fw.needle)

\* The cost of memmem and of memrmem.
memmem_cost(h, n, bld, g) ==
    IF Len(h) < 64 THEN rk_find_cost(h, n)
    ELSE Forward_find_cost(Finder_new(n, bld),
                           Forward_prefilter_state(Finder_new(n, bld)), h, g)

memrmem_cost(h, n) ==
    IF Len(h) < 64 THEN rk_rfind_cost(h, n)
    ELSE IF Len(n) = 0 THEN 0
    ELSE IF Len(n) = 1 THEN rscan_cost(memrchr(At(n, 0), h), Len(h))
    ELSE twoway_find_cost(TwoWay_new(Reverse(n)), NoFreqy,
                          PrefilterState_inert, Reverse(h), Reverse(n))

(***************************************************************************)
(* SpecCost: one call of memmem or memrmem with its cost counted, on the   *)
(* pathological inputs (a run of one byte closed by another, searched for  *)
(* a shorter such run, and the mirror image for the reverse search) and on *)
(* every short input.                                                      *)
(***************************************************************************)
CostMaxRun == 32
CostMaxNeedle == 2
CostMaxHay == 3
CostRuns == {63, 64, 100}

\* a^k z and, for the reverse search, z a^k
RunThenByte(k) == Rep(0, k) \o <<1>>
ByteThenRun(k) == <<1>> \o Rep(0, k)

CostInputs ==
    {[h |-> RunThenByte(k), n |-> RunThenByte(m)] :
        k \in CostRuns, m \in 1..CostMaxRun}
    \cup {[h |-> ByteThenRun(k), n |-> ByteThenRun(m)] :
        k \in CostRuns, m \in 1..CostMaxRun}
    \cup {[h |-> h, n |-> n] :
        h \in SeqsUpTo(Bytes, CostMaxHay), n \in SeqsUpTo(Bytes, CostMaxNeedle)}

CostInit ==
    /\ \E in \in CostInputs : haystack = in.h /\ needle = in.n
    /\ build \in Builds
    /\ freq \in RankTables
    /\ op = "init"
    /\ ret = None
    /\ fwd = NoIterator
    /\ rev = NoIterator
    /\ ps = PrefilterState_new
    /\ hist = [cost |-> 0]
    /\ peer = NoIterator

CostMemmem ==
    /\ op = "init"
    /\ \E g \in Garbage(haystack, build) :
          /\ ret' = memmem(haystack, needle, build, g)
          /\ hist' = [cost |-> memmem_cost(haystack, needle, build, g)]
    /\ op' = "memmem"
    /\ UNCHANGED <<haystack, needle, build, freq, fwd, rev, ps, peer>>

CostMemrmem ==
    /\ op = "init"
    /\ ret' = memrmem(haystack, needle)
    /\ hist' = [cost |-> memrmem_cost(haystack, needle)]
    /\ op' = "memrmem"
    /\ UNCHANGED <<haystack, needle, build, freq, fwd, rev, ps, peer>>

CostNext == CostMemmem \/ CostMemrmem

SpecCost == CostInit /\ [][CostNext]_vars

\* The constant of the linear bound.
CostFactor == 6

LinearBound == CostFactor * (Len(haystack) + Len(needle) + 1)

InfoMaxNeedle == 4
\* Needle lengths on both sides of the limits of the analysis: the 8 bytes
\* of the packed needle, the 16 bytes of a vector and u8::MAX.
InfoLens == {8, 9, 16, 17, 255, 256}

InfoNeedles ==
    SeqsUpTo(Bytes, InfoMaxNeedle)
        \cup UNION {{RunThenByte(k - 1), ByteThenRun(k - 1), Rep(2, k)} :
                    k \in InfoLens}

\* assert_ne!(rare1i, rare2i) at the end of NeedleInfo::forward and
\* NeedleInfo::reverse, which needles of length <= 1 or > 255 do not reach.
assert_ne_fails(ninfo, n) ==
    Len(n) >= 2 /\ Len(n) <= 255 /\ ninfo.rare1i = ninfo.rare2i

InfoInit ==
    /\ needle \in InfoNeedles
    /\ haystack = <<>>
    /\ build \in Builds
    /\ freq \in RankTables
    /\ Idle

\* What a call of the analysis leaves: its arguments and the NeedleInfo, and
\* a panic when the assertion on the offsets fails.
Analysed(name, skip, ninfo) ==
    /\ op' = name
    /\ hist' = [skip |-> skip, ninfo |-> ninfo]
    /\ ret' = IF assert_ne_fails(ninfo, needle) THEN Panic ELSE None

CallNeedleInfoForward ==
    /\ op = "init"
    /\ \E skip \in BOOLEAN :
        Analysed("NeedleInfo::forward", skip, NeedleInfo_forward(needle, skip))
    /\ UNCHANGED <<haystack, needle, build, freq, fwd, rev, ps, peer>>

CallNeedleInfoReverse ==
    /\ op = "init"
    /\ \E skip \in BOOLEAN :
        Analysed("NeedleInfo::reverse", skip, NeedleInfo_reverse(needle, skip))
    /\ UNCHANGED <<haystack, needle, build, freq, fwd, rev, ps, peer>>

InfoAnalysed == op \in {"NeedleInfo::forward", "NeedleInfo::reverse"}

FirstOccurrence(n, i) == \A j \in 0..(i - 1) : At(n, j) # At(n, i)

\* C22: for a needle of 2 to 255 bytes the offsets of NeedleInfo::forward
\* point to the first occurrence of their bytes in the needle.
C22_FirstOccurrence ==
    (op = "NeedleInfo::forward" /\ Len(needle) >= 2 /\ Len(needle) <= 255) =>
        /\ FirstOccurrence(needle, hist.ninfo.rare1i)
        /\ FirstOccurrence(needle, hist.ninfo.rare2i)

\* The needle is one byte twice, and rare2i is the offset of the second.
C22_SecondOccurrence ==
    /\ op = "NeedleInfo::forward"
    /\ needle = <<0, 0>>
    /\ ~hist.skip
    /\ hist.ninfo.rare1i = 0
    /\ hist.ninfo.rare2i = 1

Configs == {"Auto", "None"}

\* Freqy::forward followed by Freqy::state on the Freqy it returned.
CallFreqyForward ==
    /\ op = "init"
    /\ op' = "Freqy::forward"
    /\ \E config \in Configs :
       \E freqy \in {Freqy_forward(config, needle, build)} :
            hist' = [config |-> config, freqy |-> freqy,
                     state |-> Freqy_state(freqy)]
    /\ UNCHANGED <<haystack, needle, build, freq, ret, fwd, rev, ps, peer>>

\* The smallest rank of a byte of the needle.
RarestRank(n) ==
    CHOOSE r \in {rank(At(n, i)) : i \in 0..(Len(n) - 1)} :
        \A i \in 0..(Len(n) - 1) : r <= rank(At(n, i))

\* C23: the state of a forward prefilter starts inert (skips = 0) when the
\* needle has fewer than 2 or more than 255 bytes, and, when the scalar
\* prefilter is the one selected, when the rarest byte of the needle has a
\* rank above MAX_FALLBACK_RANK.
C23_ForwardInert ==
    op = "Freqy::forward" =>
        /\ (Len(needle) < 2 \/ Len(needle) > 255) => is_inert(hist.state)
        /\ (/\ Len(needle) >= 2
            /\ hist.freqy.prefn = "fallback"
            /\ RarestRank(needle) > MAX_FALLBACK_RANK) => is_inert(hist.state)

\* A needle of 256 bytes has a prefilter whose state starts live, with both
\* offsets 0.
C23_LongNeedleLive ==
    /\ op = "Freqy::forward"
    /\ Len(needle) = 256
    /\ hist.config = "Auto"
    /\ hist.freqy.ninfo.rare1i = 0
    /\ hist.freqy.ninfo.rare2i = 0
    /\ hist.state = PrefilterState_new

\* C23 for the needles that are analysed: a needle of 2 to 255 bytes whose
\* rarest byte ranks above MAX_FALLBACK_RANK has an inert scalar prefilter,
\* and so has every needle of at most one byte.
C23_AnalysedInert ==
    op = "Freqy::forward" =>
        /\ Len(needle) < 2 => is_inert(hist.state)
        /\ (/\ Len(needle) >= 2 /\ Len(needle) <= 255
            /\ hist.freqy.prefn = "fallback"
            /\ RarestRank(needle) > MAX_FALLBACK_RANK) => is_inert(hist.state)

C23_AnalysedInertWitness ==
    /\ op = "Freqy::forward"
    /\ needle = Rep(2, 255)
    /\ freq = RankUp
    /\ build = "scalar"
    /\ hist.config = "Auto"
    /\ is_inert(hist.state)

\* The NeedleInfo values the constructor of the vector searcher is called
\* with: what the analysis computes, and, as in the permutation tests, every
\* pair of small offsets.
InfoOffsets(n) == {k \in 0..1 : k = 0 \/ k < Len(n)}

NeedleInfos(n) ==
    {NeedleInfo_forward(n, skip) : skip \in BOOLEAN}
        \cup {[rare1i |-> i, rare2i |-> j, nhash |-> NeedleHash_new(n)] :
              i \in InfoOffsets(n), j \in InfoOffsets(n)}

\* genericsimd::Forward::new
CallForwardNew ==
    /\ op = "init"
    /\ op' = "Forward::new"
    /\ \E ninfo \in NeedleInfos(needle) :
            hist' = [ninfo |-> ninfo,
                     res |-> genericsimd_Forward_new(ninfo, needle)]
    /\ UNCHANGED <<haystack, needle, build, freq, ret, fwd, rev, ps, peer>>

\* C24: genericsimd::Forward::new returns None exactly when the needle has
\* fewer than 2 or more than 16 bytes or the two rare offsets are equal, so
\* it returns Some for every needle of 2 to 16 bytes with different offsets.
C24_ConstructedUpTo16 ==
    op = "Forward::new" =>
        (hist.res.tag = "None" <=>
            \/ Len(needle) < 2
            \/ Len(needle) > 16
            \/ hist.ninfo.rare1i = hist.ninfo.rare2i)

\* A needle of 9 bytes with different offsets, and no searcher for it.
C24_NineBytesRejected ==
    /\ op = "Forward::new"
    /\ Len(needle) = 9
    /\ hist.ninfo.rare1i # hist.ninfo.rare2i
    /\ hist.res.tag = "None"

\* Freqy::reverse followed by Freqy::state on the Freqy it returned;
\* computed is the value of the local variable inert at the return.
CallFreqyReverse ==
    /\ op = "init"
    /\ op' = "Freqy::reverse"
    /\ \E config \in Configs :
       \E freqy \in {Freqy_reverse(config, needle, build)} :
            hist' = [config |-> config, freqy |-> freqy,
                     state |-> Freqy_state(freqy),
                     computed |->
                        Freqy_reverse_inert(config, needle, freqy.ninfo)]
    /\ UNCHANGED <<haystack, needle, build, freq, ret, fwd, rev, ps, peer>>

\* C28: the state of a reverse prefilter starts inert (skips = 0) when the
\* configuration is Prefilter::None and when its rarest byte has a rank
\* above MAX_FALLBACK_RANK, and the Freqy stores the inert flag that
\* Freqy::reverse computed.
C28_ReverseInert ==
    op = "Freqy::reverse" =>
        /\ hist.config = "None" => is_inert(hist.state)
        /\ (/\ Len(needle) >= 1
            /\ rank(rev_rare(hist.freqy.ninfo, needle)[1]) > MAX_FALLBACK_RANK)
                => is_inert(hist.state)
        /\ hist.freqy.inert = hist.computed

\* The flag computed was true, for a rarest byte of rank 252, and the state
\* handed out is live.
C28_ComputedInertDropped ==
    /\ op = "Freqy::reverse"
    /\ needle = <<2, 2>>
    /\ freq = RankUp
    /\ hist.config = "Auto"
    /\ hist.computed
    /\ ~hist.freqy.inert
    /\ hist.state = PrefilterState_new

InfoNext ==
    \/ CallNeedleInfoForward
    \/ CallNeedleInfoReverse
    \/ CallFreqyForward
    \/ CallForwardNew
    \/ CallFreqyReverse

SpecInfo == InfoInit /\ [][InfoNext]_vars

(***************************************************************************)
(* SpecLoads: the vector loads of one call of a vector prefilter or of the *)
(* vector searcher.  A load is the chunk offset ptr it belongs to, the     *)
(* offset from of its first byte and its width.                            *)
(***************************************************************************)
\* The chunk offsets at which Find::run calls find_in_chunk2.
RECURSIVE simd_run_chunks(_, _, _, _, _, _)
simd_run_chunks(V, h, n, rare1i, rare2i, ptr) ==
    LET max_ptr == Len(h) - (rare2i + V) IN
    IF ptr <= max_ptr
    THEN IF IsSome(find_in_chunk2(V, h, n, rare1i, rare2i, ptr)) THEN {ptr}
         ELSE {ptr} \cup simd_run_chunks(V, h, n, rare1i, rare2i, ptr + V)
    ELSE IF ptr < Len(h) THEN {max_ptr}
    ELSE {}

\* find_in_chunk2 loads V bytes at ptr + rare1i and V bytes at ptr + rare2i.
chunk_loads(V, rare1i, rare2i, chunks) ==
    UNION {{[ptr |-> p, from |-> p + rare1i, width |-> V],
            [ptr |-> p, from |-> p + rare2i, width |-> V]} : p \in chunks}

\* The loads of sse::find and of avx::find.
sse_find_loads(ninfo, h, n) ==
    LET rare1i == as_rare_ordered_usize(ninfo)[1]
        rare2i == as_rare_ordered_usize(ninfo)[2]
    IN IF Len(n) < 2 \/ Len(h) < rare2i + SSE_VECTOR_SIZE THEN {}
       ELSE chunk_loads(SSE_VECTOR_SIZE, rare1i, rare2i,
                simd_run_chunks(SSE_VECTOR_SIZE, h, n, rare1i, rare2i, 0))

avx_find_loads(ninfo, h, n) ==
    LET rare1i == as_rare_ordered_usize(ninfo)[1]
        rare2i == as_rare_ordered_usize(ninfo)[2]
    IN IF Len(n) < 2 THEN {}
       ELSE IF Len(h) < rare2i + AVX_VECTOR_SIZE
       THEN sse_find_loads(ninfo, h, n)
       ELSE chunk_loads(AVX_VECTOR_SIZE, rare1i, rare2i,
                simd_run_chunks(AVX_VECTOR_SIZE, h, n, rare1i, rare2i, 0))

\* The chunk offsets at which fwd_find calls fwd_find_in_chunk2.
RECURSIVE fwd_find_chunks(_, _, _, _, _, _)
fwd_find_chunks(V, f, h, n, ptr, g) ==
    LET max_ptr == Len(h) - min_haystack_len(f, V) IN
    IF ptr <= max_ptr
    THEN IF IsSome(fwd_find_in_chunk2(V, f, h, n, ptr, 0, g)) THEN {ptr}
         ELSE {ptr} \cup fwd_find_chunks(V, f, h, n, ptr + V, g)
    ELSE IF ptr < Len(h) /\ Len(h) - ptr >= Len(n) THEN {max_ptr}
    ELSE {}

\* The offsets at which fwd_find_in_chunk2 reads a u64 to confirm a
\* candidate: the candidate lanes from lo on, in increasing order, as long
\* as none lies past the last possible start and none has been confirmed.
chunk_confirm_reads(V, f, h, n, ptr, lo, g) ==
    LET lanes == {k \in chunk2_lanes(V, h, n, f.rare1i, f.rare2i, ptr) : k >= lo}
        Ends(k) == ptr + k > Len(h) - Len(n) \/ confirm(f, h, n, ptr + k, g)
    IN {ptr + k : k \in {k \in lanes :
                            /\ ptr + k <= Len(h) - Len(n)
                            /\ \A j \in lanes : j < k => ~Ends(j)}}

\* The same for all the chunks of fwd_find's loop from ptr on.
RECURSIVE fwd_find_loop_reads(_, _, _, _, _, _)
fwd_find_loop_reads(V, f, h, n, ptr, g) ==
    LET max_ptr == Len(h) - min_haystack_len(f, V) IN
    IF ptr <= max_ptr
    THEN chunk_confirm_reads(V, f, h, n, ptr, 0, g)
            \cup IF IsSome(fwd_find_in_chunk2(V, f, h, n, ptr, 0, g)) THEN {}
                 ELSE fwd_find_loop_reads(V, f, h, n, ptr + V, g)
    ELSE IF ptr < Len(h) /\ Len(h) - ptr >= Len(n)
    THEN chunk_confirm_reads(V, f, h, n, max_ptr, ptr - max_ptr, g)
    ELSE {}

\* The confirming reads of genericsimd::fwd_find::<V> and of
\* x86::avx::Forward::find.
fwd_find_reads(V, f, h, n, g) ==
    IF Len(h) < Len(n) \/ Len(h) < min_haystack_len(f, V) THEN {}
    ELSE fwd_find_loop_reads(V, f, h, n, 0, g)

x86_avx_find_reads(f, h, n, g) ==
    IF Len(h) < min_haystack_len(f, AVX_VECTOR_SIZE)
    THEN fwd_find_reads(SSE_VECTOR_SIZE, f, h, n, g)
    ELSE fwd_find_reads(AVX_VECTOR_SIZE, f, h, n, g)

\* The loads of genericsimd::fwd_find::<V> and of x86::avx::Forward::find.
fwd_find_loads(V, f, h, n, g) ==
    IF Len(h) < Len(n) \/ Len(h) < min_haystack_len(f, V) THEN {}
    ELSE chunk_loads(V, f.rare1i, f.rare2i, fwd_find_chunks(V, f, h, n, 0, g))

x86_avx_find_loads(f, h, n, g) ==
    IF Len(h) < min_haystack_len(f, AVX_VECTOR_SIZE)
    THEN fwd_find_loads(SSE_VECTOR_SIZE, f, h, n, g)
    ELSE fwd_find_loads(AVX_VECTOR_SIZE, f, h, n, g)

\* Haystack lengths on both sides of rare2i + 16 and rare2i + 32, and two
\* that take more than one chunk.
LoadLens == {15, 16, 17, 18, 31, 32, 33, 34, 35, 49}
LoadMaxNeedle == 3
LoadMaxHay == 2

LoadsInit ==
    /\ needle \in {n \in SeqsUpTo(Bytes, LoadMaxNeedle) : Len(n) >= 2}
    /\ haystack \in SeqsUpTo(Bytes, LoadMaxHay)
                        \cup PlantedHays(LoadLens, {9}, needle)
    /\ build = "scalar"
    /\ freq \in RankTables
    /\ Idle

\* A call of a vector prefilter with a fresh state.
LoadsPrefilter(name, prefn) ==
    /\ op = "init"
    /\ op' = name
    /\ \E skip_first_byte \in BOOLEAN :
       \E ninfo \in {NeedleInfo_forward(needle, skip_first_byte)} :
       \E r \in {Freqy_find(prefn, PrefilterState_new, ninfo,
                            haystack, needle)} :
            /\ ret' = r.ret
            /\ ps' = r.st
            /\ hist' = [rare2i |-> as_rare_ordered_usize(ninfo)[2],
                        loads |->
                            IF prefn = "sse"
                            THEN sse_find_loads(ninfo, haystack, needle)
                            ELSE avx_find_loads(ninfo, haystack, needle),
                        reads |-> {}]
    /\ UNCHANGED <<haystack, needle, build, freq, fwd, rev, peer>>

LoadsSseFind == LoadsPrefilter("sse::find", "sse")
LoadsAvxFind == LoadsPrefilter("avx::find", "avx")

\* A call of the vector searcher; on a haystack shorter than
\* min_haystack_len fwd_find panics.
LoadsFwdFindSse ==
    /\ op = "init"
    /\ op' = "fwd_find::<__m128i>"
    /\ \E skip_first_byte \in BOOLEAN, g \in Bytes :
       \E f \in {genericsimd_Forward_new(
                    NeedleInfo_forward(needle, skip_first_byte), needle)} :
            /\ f.tag = "Some"
            /\ ret' = fwd_find(SSE_VECTOR_SIZE, f, haystack, needle, g)
            /\ hist' = [rare2i |-> f.rare2i,
                        loads |-> fwd_find_loads(SSE_VECTOR_SIZE, f, haystack,
                                                 needle, g),
                        reads |-> fwd_find_reads(SSE_VECTOR_SIZE, f, haystack,
                                                 needle, g)]
    /\ UNCHANGED <<haystack, needle, build, freq, fwd, rev, ps, peer>>

LoadsForwardFindAvx ==
    /\ op = "init"
    /\ op' = "avx::Forward::find"
    /\ \E skip_first_byte \in BOOLEAN, g \in Bytes :
       \E f \in {genericsimd_Forward_new(
                    NeedleInfo_forward(needle, skip_first_byte), needle)} :
            /\ f.tag = "Some"
            /\ ret' = x86_avx_find(f, haystack, needle, g)
            /\ hist' = [rare2i |-> f.rare2i,
                        loads |-> x86_avx_find_loads(f, haystack, needle, g),
                        reads |-> x86_avx_find_reads(f, haystack, needle, g)]
    /\ UNCHANGED <<haystack, needle, build, freq, fwd, rev, ps, peer>>

LoadsNext ==
    \/ LoadsSseFind
    \/ LoadsAvxFind
    \/ LoadsFwdFindSse
    \/ LoadsForwardFindAvx

SpecLoads == LoadsInit /\ [][LoadsNext]_vars

\* C25: every vector load of the vector prefilters and of the vector
\* searcher reads bytes of the haystack only: its chunk does not start
\* before the haystack, the load starts at or after its chunk and ends at or
\* before the end of the haystack, and it happens only in a haystack of at
\* least rare2i + vector width bytes; a shorter haystack is not loaded from.
C25_LoadsInHaystack ==
    op # "init" =>
        /\ \A l \in hist.loads :
                /\ l.ptr >= 0
                /\ l.from >= l.ptr
                /\ l.from + l.width <= Len(haystack)
                /\ Len(haystack) >= hist.rare2i + l.width
        /\ Len(haystack) < hist.rare2i + SSE_VECTOR_SIZE => hist.loads = {}

\* The prefilter found nothing in 18 bytes: after the chunk at 0 it loaded
\* the chunk re-anchored at end - min_haystack_len, whose second load ends
\* with the last byte of the haystack.
C25_Witness ==
    /\ op = "sse::find"
    /\ Len(haystack) = 18
    /\ ret = None
    /\ \E l \in hist.loads : l.ptr = 0
    /\ \E l \in hist.loads :
            /\ l.ptr = Len(haystack) - (hist.rare2i + SSE_VECTOR_SIZE)
            /\ l.ptr > 0
            /\ l.from + l.width = Len(haystack)

(***************************************************************************)
(* SpecRoll: the rolling hash of Rabin-Karp, slid along a haystack one     *)
(* Hash::roll at a time.                                                   *)
(***************************************************************************)
\* The window is slid at most this often.
RollMaxSlides == 5
\* Needle lengths: short ones, and those around 33, from where on the
\* factor 2^(n - 1) is 0 modulo 2^32.
RollLens == {1, 2, 3, 31, 32, 33, 34}
\* Byte values, the largest one included.
RollBytes == {0, 1, 255}

\* The haystack of len bytes that repeats the word w.
Repeated(w, len) == [i \in 1..len |-> w[((i - 1) % Len(w)) + 1]]

RollHays(n) == {Repeated(w, n + RollMaxSlides) : w \in SeqsOfLen(RollBytes, 3)}

\* The window of the haystack after k slides.
Window(k) == Slice(haystack, k, k + Len(needle))

\* find_with has taken the hash of the first window; the needle is one of
\* the windows of the haystack, or a run of one byte.
RollInit ==
    /\ \E n \in RollLens :
        /\ haystack \in RollHays(n)
        /\ needle \in {Slice(haystack, j, j + n) : j \in {0, 1, RollMaxSlides}}
                        \cup {Rep(1, n)}
    /\ build = "scalar"
    /\ freq = RankUp
    /\ op = "init"
    /\ ret = None
    /\ fwd = NoIterator
    /\ rev = NoIterator
    /\ peer = NoIterator
    /\ ps = PrefilterState_new
    /\ hist = [k |-> 0,
               nhash |-> NeedleHash_new(needle),
               hash |-> hash_from_bytes(Slice(haystack, 0, Len(needle)))]

\* hash.roll(&nhash, haystack[0], haystack[needle.len()]) and
\* haystack = &haystack[1..], which find_with does while the needle is
\* shorter than what is left of the haystack.
Roll ==
    /\ Len(needle) < Len(haystack) - hist.k
    /\ op' = "roll"
    /\ hist' = [hist EXCEPT
                    !.k = hist.k + 1,
                    !.hash = hash_roll(hist.hash, hist.nhash,
                                       At(haystack, hist.k),
                                       At(haystack, hist.k + Len(needle)))]
    /\ UNCHANGED <<haystack, needle, build, freq, ret, fwd, rev, ps, peer>>

SpecRoll == RollInit /\ [][Roll]_vars

\* C26: after the window has slid k times the rolling hash is
\* Hash::from_bytes of the window H[k..k+n], for needles of 33 bytes and
\* more as for shorter ones; so a window equal to the needle has the hash of
\* the needle, and Rabin-Karp finds the first occurrence.
C26_RollingHashExact ==
    /\ hist.hash = hash_from_bytes(Window(hist.k))
    /\ Window(hist.k) = needle => hist.hash = hist.nhash.hash
    /\ rk_find(haystack, needle) = naive_find(haystack, needle)

\* A needle of 33 bytes, whose factor is 0, is the window after 5 slides,
\* and the rolling hash, which has wrapped, is the needle's.
C26_Witness ==
    /\ op = "roll"
    /\ Len(needle) = 33
    /\ hist.nhash.hash_2pow = U32Zero
    /\ hist.k = RollMaxSlides
    /\ Window(hist.k) = needle
    /\ Window(0) # needle
    /\ hist.hash = hist.nhash.hash
    /\ hist.hash.hi > 0
    /\ \E i \in 1..Len(needle) : needle[i] = 255

(***************************************************************************)
(* SpecAdvisory: the forward Two-Way scan, one loop iteration at a time,   *)
(* entered with a PrefilterState in any condition; and find_with as a      *)
(* whole, entered with that state.                                         *)
(***************************************************************************)
AdvMaxNeedle == 3
AdvMaxHay == 2
\* The shortest haystack that find_with hands to Two-Way.
AdvLens == {64}

\* A state whose counters pass the effectiveness test, and one about to
\* saturate.
PrefilterState_proven ==
    [skips |-> U32Of(MIN_SKIPS + 1), skipped |-> U32Of(1000)]
PrefilterState_full == [skips |-> AlmostMax, skipped |-> U32Max]

AdvStates == EntryStates \cup {PrefilterState_proven, PrefilterState_full}

AdvInit ==
    /\ needle \in {n \in SeqsUpTo(Bytes, AdvMaxNeedle) : Len(n) >= 2}
    /\ haystack \in SeqsUpTo(Bytes, AdvMaxHay)
                        \cup PlantedHays(AdvLens, {33}, needle)
    /\ build \in Builds
    /\ freq \in RankTables
    /\ op = "init"
    /\ ret = None
    /\ fwd = NoIterator
    /\ rev = NoIterator
    /\ peer = NoIterator
    /\ ps \in AdvStates
    /\ hist = [pos |-> 0, memory |-> 0, st |-> ps, done |-> FALSE,
               ret |-> None, from |-> 0, cand |-> None]

\* What the prefilter returns in the iteration that starts in loop state s:
\* nothing when the state is not effective and the prefilter is not called.
Candidate(freqy, h, n, s) ==
    IF s.pos + Len(n) <= Len(h) /\ is_effective(s.st).ret
    THEN Freqy_find(freqy.prefn, is_effective(s.st).st, freqy.ninfo,
                    From(h, s.pos), n).ret
    ELSE None

\* One iteration of the Two-Way scan, with the prefilter of the build; from
\* is the window start it began at and cand what the prefilter returned.
AdvStep ==
    /\ op \in {"init", "step"}
    /\ ~hist.done
    /\ op' = "step"
    /\ \E freqy \in {Freqy_forward("Auto", needle, build)} :
            hist' = [twoway_step(TwoWay_new(needle), freqy,
                                 haystack, needle, hist)
                        EXCEPT !.from = hist.pos,
                               !.cand = Candidate(freqy, haystack, needle,
                                                  hist)]
    /\ ret' = hist'.ret
    /\ UNCHANGED <<haystack, needle, build, freq, fwd, rev, ps, peer>>

\* Finder::find_with entered with the state ps; hist keeps what the same
\* call returns when it is entered with an inert state.
AdvFindWith ==
    /\ op = "init"
    /\ op' = "find_with"
    /\ \E g \in Garbage(haystack, build) :
       \E fw \in {Finder_new(needle, build)} :
            /\ ret' = Forward_find_with(fw, ps, haystack, g).ret
            /\ hist' = [hist EXCEPT
                            !.done = TRUE,
                            !.ret = Forward_find_with(fw, PrefilterState_inert,
                                                      haystack, g).ret]
    /\ UNCHANGED <<haystack, needle, build, freq, fwd, rev, ps, peer>>

AdvNext == AdvStep \/ AdvFindWith

SpecAdvisory == AdvInit /\ [][AdvNext]_vars

\* The Two-Way scan of the input entered with an inert state.
InertScan ==
    twoway_find_loop(TwoWay_new(needle), NoFreqy, PrefilterState_inert,
                     haystack, needle, 0, 0).ret

\* C27: whatever state the PrefilterState is in at entry, the Two-Way scan
\* with a prefilter ends with the position that the scan with an inert
\* state returns, and so does find_with; and every iteration that does not
\* end the scan moves the window start forward by at least 1.
C27_PrefilterAdvisory ==
    /\ [](op = "step" /\ hist.done => hist.ret = InertScan)
    /\ [](op = "find_with" => ret = hist.ret)
    /\ [][op' = "step" /\ ~hist'.done => hist'.pos >= hist.pos + 1]_vars

\* The scan was entered with counters that pass the effectiveness test; in
\* an iteration past the first the prefilter has returned candidate 0, the
\* window did not match, and the scan has moved on.
C27_Witness ==
    /\ op = "step"
    /\ ps = PrefilterState_proven
    /\ Len(haystack) = 64
    /\ ~hist.done
    /\ hist.cand = Some(0)
    /\ hist.from > 0
    /\ hist.pos > hist.from

(***************************************************************************)
(* The confirming reads of the vector searcher, under SpecLoads.           *)
(***************************************************************************)
SearcherOps == {"fwd_find::<__m128i>", "avx::Forward::find"}

\* C29: every confirming read of the vector searcher, the 8 bytes of a u64
\* at the candidate, lies inside the haystack.
C29_ConfirmInHaystack ==
    op \in SearcherOps =>
        \A r \in hist.reads : r >= 0 /\ r + 8 <= Len(haystack)

\* The needle of 2 bytes ends the haystack of 17; it was found at 15, where
\* the confirming read took the 2 bytes of the match and 6 bytes past the
\* end of the haystack.
C29_ReadPastEnd ==
    /\ op = "fwd_find::<__m128i>"
    /\ Len(needle) = 2
    /\ Len(haystack) = 17
    /\ ret = Some(15)
    /\ 15 \in hist.reads

\* The confirming reads start at possible starts of the needle: the first
\* Len(needle) bytes of each are bytes of the haystack.
C29_NeedleBytesInHaystack ==
    op \in SearcherOps =>
        \A r \in hist.reads : r >= 0 /\ r + Len(needle) <= Len(haystack)

====
